---- MODULE Spec2Model ----
(***************************************************************************)
(* Pickleball scheduler.  The repository holds two schedulers:             *)
(*   - generateSchedule (src/unnamed/part_000): one call produces `games`  *)
(*     rounds from a mode, a participant count and a court list;           *)
(*   - generate (src/src/App.tsx): each call appends rounds to a session   *)
(*     that keeps bye counts and a matchup history.                        *)
(* SpecSchedule is the state machine of the first, Spec of the second.     *)
(***************************************************************************)
EXTENDS Integers, Sequences, FiniteSets, TLC

VARIABLES
    \* ---- src/unnamed/part_000: one generateSchedule call ----
    args,       \* the call's arguments {mode, participantCount, courtNumbers, games}
    result,     \* {rounds, error}: the value being built / returned
    g,          \* loop counter of `for (let g = 1; g <= games; g++)`
    pc,         \* "idle" | "loop" | "returned"
    \* ---- src/src/App.tsx: component state of PickleballPartnerPlayScheduler ----
    numCouples,          \* the Couples input
    roundCount,          \* the Rounds to add input
    courtNumbersInUse,   \* useMemo over the two court inputs: the courts in use
    results,             \* RoundResult[]
    byeCounts,           \* Record<string, number>: a partial map
    matchupSet,          \* Set<string> of pair keys
    showRoundIndex,
    \* ---- src/src/App.tsx: locals of a generate() call in progress ----
    genPc,               \* "idle" | "loop"
    r,                   \* loop counter of `for (let r = 0; r < roundsN; r++)`
    newResults,
    lastByesSet,
    nextByeCounts,
    nextMatchupSet,
    \* ---- src/src/App.tsx: one buildMatchesAvoidRepeats() call, attempt by attempt ----
    searchActive,        \* activeCouples
    searchCourts,        \* courtNumbers
    searchMatchups,      \* matchupSet (the parameter)
    searchAttempt,       \* loop counter of `for (let attempt = 0; ...)`
    searchBest,          \* best and bestRepeats
    searchOut,           \* the value returned
    searchPc,            \* "idle" | "drawn" | "loop" | "out" | "returned"
    searchSamples,       \* what the calls of shuffle(pool) return, in order
    \* ---- src/src/App.tsx: what the component shows and hands out ----
    tvMode,
    isFullscreen,
    autoAdvance,
    copyNotice,          \* "" | "Copied!"
    copyModalOpen,
    copyModalText,       \* the lines the copy modal shows
    \* ---- src/unnamed/part_000: component state of App (`mode`, `rounds`, `error`
    \* and `tvMode` carry the prefix ui: the names are taken above) ----
    uiMode,              \* "couples" | "roundRobin"
    countText,           \* the three text inputs, each a sequence of characters
    courtsText,
    gamesText,
    uiRounds,            \* Round[]
    uiError,             \* the message shown, with the token quoted in it
    uiTvMode,
    tvGameIndex,
    \* ---- src/src/App.tsx: one call of pairKey or of clampInt ----
    keyA, keyB,          \* the two names, each a sequence of characters
    keyOut,              \* the key returned
    clampN,              \* the number passed: finite, NaN or an infinity
    clampMin, clampMax,
    clampOut,            \* the value returned
    fnPc                 \* "idle" | "called" | "returned"

schedVars == <<args, result, g, pc>>
stateVars == <<numCouples, roundCount, courtNumbersInUse,
               results, byeCounts, matchupSet, showRoundIndex>>
genVars == <<genPc, r, newResults, lastByesSet, nextByeCounts, nextMatchupSet>>
searchVars == <<searchActive, searchCourts, searchMatchups, searchAttempt,
                searchBest, searchOut, searchPc, searchSamples>>
viewVars == <<tvMode, isFullscreen, autoAdvance, copyNotice, copyModalOpen,
              copyModalText>>
uiVars == <<uiMode, countText, courtsText, gamesText, uiRounds, uiError, uiTvMode,
            tvGameIndex>>
callVars == <<keyA, keyB, keyOut, clampN, clampMin, clampMax, clampOut, fnPc>>
vars == <<schedVars, stateVars, genVars, searchVars, viewVars, uiVars, callVars>>

(***************************************************************************)
(* Bounds of the model.                                                    *)
(***************************************************************************)
MaxParticipants == 5
MaxGames == 2
MaxCourts == 2
MaxCouples == 5
MaxRounds == 2
MaxDraws == 1
MaxSessionRounds == 3
MaxSearchCouples == 4
MaxSearchDraws == 3
MaxViewCouples == 3
MaxTextLen == 4
MaxCourtsTyped == 33
MaxUiCount == 2
MaxUiGames == 2
MaxNames == 40
MaxNameLen == 2
MaxClamp == 41
MaxClampRange == 2
Denominator == 2

Min(a, b) == IF a <= b THEN a ELSE b
Max(a, b) == IF a >= b THEN a ELSE b

Range(s) == {s[i] : i \in DOMAIN s}

\* Sequences over S without repetition that use every element of S.
Perms(S) == {s \in [1..Cardinality(S) -> S] : Range(s) = S}

(***************************************************************************)
(* src/unnamed/part_000                                                    *)
(***************************************************************************)
Modes == {"couples", "roundRobin"}

\* Court labels are the caller's: not contiguous, not starting at 1.
CourtLabel(i) == 3 * i - 1
CourtLabels == {CourtLabel(i) : i \in 1..MaxCourts}

\* The ascending enumeration of a set of labels.
RECURSIVE Ascending(_)
Ascending(S) ==
    IF S = {} THEN <<>>
    ELSE LET m == CHOOSE x \in S : \A y \in S : x <= y
         IN  <<m>> \o Ascending(S \ {m})

\* Court lists a caller can pass: parseCourtsInput returns them sorted and
\* de-duplicated; the empty list stands for a caller that passes none.
CourtLists == {Ascending(S) : S \in SUBSET CourtLabels}

ParticipantCounts == (-1)..MaxParticipants
GameCounts == (-1)..MaxGames

\* Array.prototype.slice(start, end) for 0 <= start, 0 <= end.
Slice(a, start, end) ==
    IF start >= Min(end, Len(a)) THEN <<>>
    ELSE SubSeq(a, start + 1, Min(end, Len(a)))

\* shuffle: Fisher-Yates over Math.random can return any ordering.
shuffle(array) ==
    {[i \in 1..Len(array) |-> array[p[i]]] : p \in Perms(1..Len(array))}

\* A chunk that drops a trailing short slice.
chunkDropShort(array, size) ==
    [k \in 1..(Len(array) \div size) |-> Slice(array, (k - 1) * size, k * size)]

\* chunk: consecutive slices of `size`, the last one possibly shorter.
chunk(array, size) ==
    [k \in 1..((Len(array) + size - 1) \div size) |->
        Slice(array, (k - 1) * size, k * size)]

\* buildParticipants: `${label} ${i + 1}`; a participant is identified by i + 1.
buildParticipants(mode, count) ==
    IF count <= 0 THEN <<>> ELSE [i \in 1..count |-> i]

unitsPerCourtOf(mode) == IF mode = "couples" THEN 2 ELSE 4

ErrParticipants == "Please enter the number of couples/players."
ErrCourts == "Please enter courts (e.g., 8 or 1-3,5,6)."
ErrGames == "Please enter the number of games."

\* validate without the participant check.
validateNoParticipants(a) ==
    IF Len(a.courtNumbers) = 0 THEN ErrCourts
    ELSE IF a.games <= 0 THEN ErrGames
    ELSE ""

\* validate with `games < 0` in place of `games <= 0`.
validateGamesStrict(a) ==
    IF Len(buildParticipants(a.mode, a.participantCount)) = 0 THEN ErrParticipants
    ELSE IF Len(a.courtNumbers) = 0 THEN ErrCourts
    ELSE IF a.games < 0 THEN ErrGames
    ELSE ""

\* The early returns of generateSchedule; "" when the arguments pass.
validate(a) ==
    IF Len(buildParticipants(a.mode, a.participantCount)) = 0 THEN ErrParticipants
    ELSE IF Len(a.courtNumbers) = 0 THEN ErrCourts
    ELSE IF a.games <= 0 THEN ErrGames
    ELSE ""

\* makeRound numbering its rounds from 0.
makeRoundZeroBased(a, gameNumber, shuffled) ==
    LET unitsPerCourt == unitsPerCourtOf(a.mode)
        maxUnitsUsed == Len(a.courtNumbers) * unitsPerCourt
        used == Slice(shuffled, 0, maxUnitsUsed)
        byes == Slice(shuffled, maxUnitsUsed, Len(shuffled))
        groups == Slice(chunk(used, unitsPerCourt), 0, Len(a.courtNumbers))
    IN  [gameNumber |-> gameNumber - 1,
         courts |-> [idx \in 1..Len(groups) |->
                        [courtNumber |-> a.courtNumbers[idx], group |-> groups[idx]]],
         byes |-> byes]

\* One iteration of the loop: the round built from one shuffle.
makeRound(a, gameNumber, shuffled) ==
    LET unitsPerCourt == unitsPerCourtOf(a.mode)
        maxUnitsUsed == Len(a.courtNumbers) * unitsPerCourt
        used == Slice(shuffled, 0, maxUnitsUsed)
        byes == Slice(shuffled, maxUnitsUsed, Len(shuffled))
        groups == Slice(chunk(used, unitsPerCourt), 0, Len(a.courtNumbers))
    IN  [gameNumber |-> gameNumber,
         courts |-> [idx \in 1..Len(groups) |->
                        [courtNumber |-> a.courtNumbers[idx], group |-> groups[idx]]],
         byes |-> byes]

(***************************************************************************)
(* Text inputs of part_000.  A text is a sequence of characters over a     *)
(* small alphabet: four digits, the two separators parseCourtsInput knows, *)
(* a space and one character that is none of these.                        *)
(***************************************************************************)
Digits == {"0", "1", "2", "3"}
Chars == Digits \cup {"-", ",", " ", "x"}

TextsUpTo(n) == UNION {[1..k -> Chars] : k \in 0..n}

digitValue(c) == CASE c = "0" -> 0 [] c = "1" -> 1 [] c = "2" -> 2 [] c = "3" -> 3

\* /^\d+$/.test(t)
allDigits(t) == Len(t) > 0 /\ \A i \in 1..Len(t) : t[i] \in Digits

\* Number.parseInt(t, 10) of a text of digits (finite: the texts are short).
RECURSIVE parseInt(_)
parseInt(t) ==
    IF Len(t) = 0 THEN 0
    ELSE 10 * parseInt(SubSeq(t, 1, Len(t) - 1)) + digitValue(t[Len(t)])

\* String.prototype.trim
RECURSIVE trimStart(_)
trimStart(t) == IF Len(t) > 0 /\ t[1] = " " THEN trimStart(Tail(t)) ELSE t
RECURSIVE trimEnd(_)
trimEnd(t) ==
    IF Len(t) > 0 /\ t[Len(t)] = " " THEN trimEnd(SubSeq(t, 1, Len(t) - 1)) ELSE t
trim(t) == trimEnd(trimStart(t))

\* parsePositiveInt: the digits of the text read as a number, 0 without digits.
parsePositiveInt(t) ==
    LET cleaned == SelectSeq(t, LAMBDA c : c \in Digits)
    IN  IF Len(cleaned) = 0 THEN 0 ELSE parseInt(cleaned)

\* raw.split(",")
RECURSIVE split(_)
split(t) ==
    IF \A i \in 1..Len(t) : t[i] # "," THEN <<t>>
    ELSE LET i == CHOOSE j \in 1..Len(t) :
                      t[j] = "," /\ \A k \in 1..(j - 1) : t[k] # ","
         IN  <<SubSeq(t, 1, i - 1)>> \o split(SubSeq(t, i + 1, Len(t)))

\* raw.split(",").map((t) => t.trim()).filter(Boolean)
tokensOf(raw) ==
    LET parts == split(raw)
    IN  SelectSeq([i \in 1..Len(parts) |-> trim(parts[i])], LAMBDA t : Len(t) > 0)

\* tok.match(/^(\d+)\s*-\s*(\d+)$/): the places of a dash that splits the token
\* into digits, spaces | spaces, digits (at most one place).
rangeDash(tok) ==
    {i \in 1..Len(tok) :
        /\ tok[i] = "-"
        /\ allDigits(trimEnd(SubSeq(tok, 1, i - 1)))
        /\ allDigits(trimStart(SubSeq(tok, i + 1, Len(tok))))}

\* An error message with the token it quotes (none: the empty text).
Err(msg, tok) == [msg |-> msg, tok |-> tok]
NoErr == Err("", <<>>)

ErrCourtCount == "Court count must be at least 1."
ErrCourtsList == "Please enter courts (e.g., 1-3,5,6)."
ErrRange == "Invalid range. Use positive numbers."
ErrCourtNumber == "Invalid court number."
ErrEntry == "Invalid courts entry. Try 1-3,5,6 or 8."
ErrNoCourts == "No valid courts found."

\* The for loop over the tokens taking a single number as it comes, 0 too.
RECURSIVE parseTokensAnyNumber(_, _)
parseTokensAnyNumber(tokens, set) ==
    IF Len(tokens) = 0 THEN [set |-> set, error |-> NoErr]
    ELSE LET tok == tokens[1]
         IN  IF rangeDash(tok) # {}
             THEN LET i == CHOOSE j \in rangeDash(tok) : TRUE
                      a == parseInt(trimEnd(SubSeq(tok, 1, i - 1)))
                      b == parseInt(trimStart(SubSeq(tok, i + 1, Len(tok))))
                  IN  IF a <= 0 \/ b <= 0
                      THEN [set |-> {}, error |-> Err(ErrRange, tok)]
                      ELSE parseTokensAnyNumber(Tail(tokens),
                                                set \cup (Min(a, b)..Max(a, b)))
             ELSE IF allDigits(tok)
             THEN parseTokensAnyNumber(Tail(tokens), set \cup {parseInt(tok)})
             ELSE [set |-> {}, error |-> Err(ErrEntry, tok)]

\* The for loop over the tokens: the set built, or the first error.
RECURSIVE parseTokens(_, _)
parseTokens(tokens, set) ==
    IF Len(tokens) = 0 THEN [set |-> set, error |-> NoErr]
    ELSE LET tok == tokens[1]
         IN  IF rangeDash(tok) # {}
             THEN LET i == CHOOSE j \in rangeDash(tok) : TRUE
                      a == parseInt(trimEnd(SubSeq(tok, 1, i - 1)))
                      b == parseInt(trimStart(SubSeq(tok, i + 1, Len(tok))))
                  IN  IF a <= 0 \/ b <= 0
                      THEN [set |-> {}, error |-> Err(ErrRange, tok)]
                      ELSE parseTokens(Tail(tokens), set \cup (Min(a, b)..Max(a, b)))
             ELSE IF allDigits(tok)
             THEN IF parseInt(tok) <= 0
                  THEN [set |-> {}, error |-> Err(ErrCourtNumber, tok)]
                  ELSE parseTokens(Tail(tokens), set \cup {parseInt(tok)})
             ELSE [set |-> {}, error |-> Err(ErrEntry, tok)]

parseCourtsInput(text) ==
    LET raw == trim(text)
    IN  IF Len(raw) = 0 THEN [courts |-> <<>>, error |-> Err(ErrCourts, <<>>)]
        ELSE IF allDigits(raw)
        THEN IF parseInt(raw) <= 0
             THEN [courts |-> <<>>, error |-> Err(ErrCourtCount, <<>>)]
             ELSE [courts |-> [i \in 1..parseInt(raw) |-> i], error |-> NoErr]
        ELSE LET tokens == tokensOf(raw)
                 parsed == parseTokens(tokens, {})
             IN  IF Len(tokens) = 0
                 THEN [courts |-> <<>>, error |-> Err(ErrCourtsList, <<>>)]
                 ELSE IF parsed.error # NoErr
                 THEN [courts |-> <<>>, error |-> parsed.error]
                 ELSE IF parsed.set = {}
                 THEN [courts |-> <<>>, error |-> Err(ErrNoCourts, <<>>)]
                 ELSE [courts |-> Ascending(parsed.set), error |-> NoErr]

\* generateSchedule as a whole: the values one call can return.
generateSchedule(a) ==
    IF validate(a) # "" THEN {[rounds |-> <<>>, error |-> validate(a)]}
    ELSE {[rounds |-> [k \in 1..a.games |-> makeRound(a, k, sh[k])], error |-> ""] :
            sh \in [1..a.games ->
                      shuffle(buildParticipants(a.mode, a.participantCount))]}

\* The useState initial values of App.
UiIdle ==
    /\ uiMode = "couples"
    /\ countText = <<>>
    /\ courtsText = <<>>
    /\ gamesText = <<>>
    /\ uiRounds = <<>>
    /\ uiError = NoErr
    /\ uiTvMode = FALSE
    /\ tvGameIndex = 0

(***************************************************************************)
(* src/src/App.tsx                                                         *)
(***************************************************************************)
\* clampInt on the integers the inputs are drawn from (Number.isFinite holds).
clampInt(n, min, max) == Max(min, Min(max, n))

range(start, endInclusive) ==
    [i \in 1..Max(0, endInclusive - start + 1) |-> start + i - 1]

\* defaultCoupleName(i) = `Couple ${i}`: a couple is identified by its number.
defaultCoupleName(i) == i

\* The team name of an OPEN court ("").
EmptyName == 0

\* pairKey: the two names sorted, then joined; the sorted pair identifies it.
pairKey(a, b) == IF a <= b THEN <<a, b>> ELSE <<b, a>>

(***************************************************************************)
(* pairKey and clampInt on the values JavaScript hands them: names as      *)
(* sequences of characters, numbers that may be fractional, NaN or         *)
(* infinite.  The definitions above are these restricted to couple         *)
(* numbers and to integers.                                                *)
(***************************************************************************)
\* The arrow U+27F7 of the separator, as one character.
Arrow == "<->"

\* The UTF-16 code unit of a character, which Array.prototype.sort compares.
charCode(c) ==
    CASE c = " " -> 32
      [] c = "0" -> 48 [] c = "1" -> 49 [] c = "2" -> 50 [] c = "3" -> 51
      [] c = "4" -> 52 [] c = "5" -> 53 [] c = "6" -> 54 [] c = "7" -> 55
      [] c = "8" -> 56 [] c = "9" -> 57
      [] c = "A" -> 65 [] c = "C" -> 67
      [] c = "e" -> 101 [] c = "l" -> 108 [] c = "o" -> 111
      [] c = "p" -> 112 [] c = "u" -> 117
      [] c = Arrow -> 10231

\* a < b as strings: the first differing code unit decides, a prefix is less.
RECURSIVE stringLess(_, _)
stringLess(a, b) ==
    IF Len(b) = 0 THEN FALSE
    ELSE IF Len(a) = 0 THEN TRUE
    ELSE IF a[1] # b[1] THEN charCode(a[1]) < charCode(b[1])
    ELSE stringLess(Tail(a), Tail(b))

\* String(i) for i >= 0.
RECURSIVE decimal(_)
decimal(i) ==
    LET digit == <<"0", "1", "2", "3", "4", "5", "6", "7", "8", "9">>[(i % 10) + 1]
    IN  IF i < 10 THEN <<digit>> ELSE decimal(i \div 10) \o <<digit>>

\* defaultCoupleName as text: `Couple ${i}`.
defaultCoupleNameText(i) == <<"C", "o", "u", "p", "l", "e", " ">> \o decimal(i)

\* pairKey taking the names as given, without the sort.
pairKeyTextUnsorted(a, b) == a \o <<" ", Arrow, " ">> \o b

\* pairKey as text: [a, b].sort().join(" <-> ").  sort swaps the two only
\* when the second is less than the first.
pairKeyText(a, b) ==
    LET sorted == IF stringLess(b, a) THEN <<b, a>> ELSE <<a, b>>
    IN  sorted[1] \o <<" ", Arrow, " ">> \o sorted[2]

\* A JavaScript number: q / Denominator when finite.
Num(kind, q) == [kind |-> kind, q |-> q]
isFinite(n) == n.kind = "finite"

\* Math.floor of a finite number (\div rounds down).
floor(n) == n.q \div Denominator

\* clampInt with Math.ceil in place of Math.floor.
clampIntNumberCeil(n, min, max) ==
    LET x == IF isFinite(n) THEN -((-n.q) \div Denominator) ELSE min
    IN  Max(min, Min(max, x))

\* clampInt on any number.
clampIntNumber(n, min, max) ==
    LET x == IF isFinite(n) THEN floor(n) ELSE min
    IN  Max(min, Min(max, x))

\* No call of pairKey or clampInt is being followed.
CallIdle ==
    /\ keyA = <<>>
    /\ keyB = <<>>
    /\ keyOut = <<>>
    /\ clampN = Num("finite", 0)
    /\ clampMin = 0
    /\ clampMax = 0
    /\ clampOut = 0
    /\ fnPc = "idle"

\* couples (useMemo): the default names of clampInt(numCouples, 2, 40) couples.
couplesOf(n) == [i \in 1..clampInt(n, 2, 40) |-> defaultCoupleName(i)]

\* courtNumbersInUse (useMemo).
courtNumbersInUseOf(custom, n) ==
    IF Len(custom) > 0 THEN custom ELSE range(1, clampInt(n, 1, 40))

\* byeCounts[c] ?? 0
CountOf(counts, c) == IF c \in DOMAIN counts THEN counts[c] ELSE 0

\* The first n elements of a sequence (pushes guarded by chosen.length < byeSlots).
Take(s, n) == Slice(s, 0, n)

Filter(s, S) == SelectSeq(s, LAMBDA c : c \in S)

\* byeBuckets taking the buckets from the highest bye count down.
RECURSIVE byeBucketsDescending(_, _, _, _, _, _)
byeBucketsDescending(couples, counts, byeSlots, lastByes, chosen, bucketed) ==
    LET rest == Range(couples) \ bucketed
    IN  IF Len(chosen) >= byeSlots \/ rest = {} THEN {chosen}
        ELSE LET k == CHOOSE x \in {CountOf(counts, c) : c \in rest} :
                          \A c \in rest : x >= CountOf(counts, c)
                 inBucket == {c \in rest : CountOf(counts, c) = k}
                 bucket == Filter(couples, inBucket)
                 nonLast == IF lastByes # {} THEN Filter(bucket, inBucket \ lastByes)
                            ELSE bucket
                 last == IF lastByes # {} THEN Filter(bucket, inBucket \cap lastByes)
                         ELSE <<>>
             IN  UNION {byeBucketsDescending(couples, counts, byeSlots, lastByes,
                                             Take(chosen \o s1 \o s2, byeSlots),
                                             bucketed \cup inBucket) :
                            <<s1, s2>> \in shuffle(nonLast) \X shuffle(last)}

\* byeBuckets shuffling each bucket whole, whoever sat out the round before.
RECURSIVE byeBucketsNoLast(_, _, _, _, _, _)
byeBucketsNoLast(couples, counts, byeSlots, lastByes, chosen, bucketed) ==
    LET rest == Range(couples) \ bucketed
    IN  IF Len(chosen) >= byeSlots \/ rest = {} THEN {chosen}
        ELSE LET k == CHOOSE x \in {CountOf(counts, c) : c \in rest} :
                          \A c \in rest : x <= CountOf(counts, c)
                 inBucket == {c \in rest : CountOf(counts, c) = k}
                 bucket == Filter(couples, inBucket)
             IN  UNION {byeBucketsNoLast(couples, counts, byeSlots, lastByes,
                                         Take(chosen \o s1, byeSlots),
                                         bucketed \cup inBucket) :
                            s1 \in shuffle(bucket)}

\* The while loop of chooseByesFair from the first couple not yet in a bucket:
\* every list the two shuffles of each bucket can leave in `chosen`.
RECURSIVE byeBuckets(_, _, _, _, _, _)
byeBuckets(couples, counts, byeSlots, lastByes, chosen, bucketed) ==
    LET rest == Range(couples) \ bucketed
    IN  IF Len(chosen) >= byeSlots \/ rest = {} THEN {chosen}
        ELSE LET k == CHOOSE x \in {CountOf(counts, c) : c \in rest} :
                          \A c \in rest : x <= CountOf(counts, c)
                 inBucket == {c \in rest : CountOf(counts, c) = k}
                 bucket == Filter(couples, inBucket)
                 nonLast == IF lastByes # {} THEN Filter(bucket, inBucket \ lastByes)
                            ELSE bucket
                 last == IF lastByes # {} THEN Filter(bucket, inBucket \cap lastByes)
                         ELSE <<>>
             IN  UNION {byeBuckets(couples, counts, byeSlots, lastByes,
                                   Take(chosen \o s1 \o s2, byeSlots),
                                   bucketed \cup inBucket) :
                            <<s1, s2>> \in shuffle(nonLast) \X shuffle(last)}

\* chooseByesFair: the set of bye lists it can return.
chooseByesFair(couples, counts, byeSlots, lastByes) ==
    IF byeSlots <= 0 THEN {<<>>}
    ELSE byeBuckets(couples, counts, byeSlots, lastByes, <<>>, {})

\* remaining.splice(pickIdx, 1)
RemoveAt(s, i) == SubSeq(s, 1, i - 1) \o SubSeq(s, i + 1, Len(s))

\* attempt leaving the partner it picked in `remaining`.
RECURSIVE attemptKeepPartner(_, _)
attemptKeepPartner(remaining, matchups) ==
    IF Len(remaining) < 2 THEN [matches |-> <<>>, repeats |-> 0]
    ELSE LET a == Head(remaining)
             rem == Tail(remaining)
             fresh == {j \in 1..Len(rem) : pairKey(a, rem[j]) \notin matchups}
             pickIdx == IF fresh = {} THEN 1
                        ELSE CHOOSE j \in fresh : \A i \in fresh : j <= i
             b == rem[pickIdx]
             tail == attemptKeepPartner(rem, matchups)
         IN  [matches |-> <<<<a, b>>>> \o tail.matches,
              repeats |-> (IF pairKey(a, b) \in matchups THEN 1 ELSE 0) + tail.repeats]

\* attempt taking the next participant as partner, played or not.
RECURSIVE attemptFirstPartner(_, _)
attemptFirstPartner(remaining, matchups) ==
    IF Len(remaining) < 2 THEN [matches |-> <<>>, repeats |-> 0]
    ELSE LET a == Head(remaining)
             rem == Tail(remaining)
             b == rem[1]
             tail == attemptFirstPartner(RemoveAt(rem, 1), matchups)
         IN  [matches |-> <<<<a, b>>>> \o tail.matches,
              repeats |-> (IF pairKey(a, b) \in matchups THEN 1 ELSE 0) + tail.repeats]

\* One attempt of buildMatchesAvoidRepeats on one shuffle of the pool: the
\* `while (remaining.length >= 2)` loop.
RECURSIVE attempt(_, _)
attempt(remaining, matchups) ==
    IF Len(remaining) < 2 THEN [matches |-> <<>>, repeats |-> 0]
    ELSE LET a == Head(remaining)
             rem == Tail(remaining)
             fresh == {j \in 1..Len(rem) : pairKey(a, rem[j]) \notin matchups}
             pickIdx == IF fresh = {} THEN 1
                        ELSE CHOOSE j \in fresh : \A i \in fresh : j <= i
             b == rem[pickIdx]
             tail == attempt(RemoveAt(rem, pickIdx), matchups)
         IN  [matches |-> <<<<a, b>>>> \o tail.matches,
              repeats |-> (IF pairKey(a, b) \in matchups THEN 1 ELSE 0) + tail.repeats]

maxRetries == 250

\* search keeping the last of the attempts with the fewest repeats.
RECURSIVE searchLastWins(_, _, _, _)
searchLastWins(samples, matchups, at, best) ==
    IF at > Len(samples) \/ at > maxRetries THEN best
    ELSE LET cand == attempt(samples[at], matchups)
         IN  IF best.found = FALSE \/ cand.repeats <= best.repeats
             THEN LET nb == [found |-> TRUE, matches |-> cand.matches,
                             repeats |-> cand.repeats]
                  IN  IF nb.repeats = 0 THEN nb
                      ELSE searchLastWins(samples, matchups, at + 1, nb)
             ELSE searchLastWins(samples, matchups, at + 1, best)

\* The attempts loop over the shuffles it draws, from attempt number `at`:
\* keeps the first attempt with the fewest repeats, stops at 0.
RECURSIVE search(_, _, _, _)
search(samples, matchups, at, best) ==
    IF at > Len(samples) \/ at > maxRetries THEN best
    ELSE LET cand == attempt(samples[at], matchups)
         IN  IF best.found = FALSE \/ cand.repeats < best.repeats
             THEN LET nb == [found |-> TRUE, matches |-> cand.matches,
                             repeats |-> cand.repeats]
                  IN  IF nb.repeats = 0 THEN nb
                      ELSE search(samples, matchups, at + 1, nb)
             ELSE search(samples, matchups, at + 1, best)

\* let best = null; let bestRepeats = Infinity
NoBest == [found |-> FALSE, matches |-> <<>>, repeats |-> 0]

\* matchesOut reporting no repeat.
matchesOutNoRepeats(best, courtNumbers) ==
    LET n == Min(Len(best.matches), Len(courtNumbers))
    IN  [courtsOut |-> [i \in 1..n |->
                           [court |-> courtNumbers[i], team1 |-> best.matches[i][1],
                            team2 |-> best.matches[i][2], isOpen |-> FALSE]],
         repeatsUsed |-> 0]

\* The value returned for the best attempt kept: one entry per match, on the
\* courts in order.
matchesOut(best, courtNumbers) ==
    LET n == Min(Len(best.matches), Len(courtNumbers))
    IN  [courtsOut |-> [i \in 1..n |->
                           [court |-> courtNumbers[i], team1 |-> best.matches[i][1],
                            team2 |-> best.matches[i][2], isOpen |-> FALSE]],
         repeatsUsed |-> best.repeats]

\* buildMatchesAvoidRepeats on the shuffles `samples` its attempts draw.
buildMatchesAvoidRepeats(samples, courtNumbers, matchups) ==
    matchesOut(search(samples, matchups, 1, NoBest), courtNumbers)

\* The pool of buildMatchesAvoidRepeats: the first needPlayers of activeCouples.
poolOf(activeCouples, courtNumbers) ==
    Slice(activeCouples, 0, 2 * Min(Len(courtNumbers), Len(activeCouples) \div 2))

\* The shuffles the attempts of one search draw, whatever order shuffle(active)
\* gave: up to MaxDraws orders of the pool.  Attempts after the last modelled
\* draw redraw an order already drawn, which never replaces `best` (the test is
\* a strict <).
samplesOf(active, courtNumbers) ==
    UNION {UNION {[1..n -> shuffle(poolOf(activeShuffled, courtNumbers))] :
                     n \in 1..Min(MaxDraws, maxRetries)} :
              activeShuffled \in shuffle(active)}

CoupleInputs == 1..MaxCouples
CourtCountInputs == 0..MaxCourts
RoundCountInputs == 0..MaxRounds

\* The values courtNumbersInUse takes over the two court inputs.
CourtsInUse ==
    {courtNumbersInUseOf(custom, n) : custom \in CourtLists, n \in CourtCountInputs}

couples == couplesOf(numCouples)
canPlay == Len(couples) >= 2 /\ Len(courtNumbersInUse) >= 1

\* useEffect on couples.length: keep byeCounts aligned with the couple list.
alignByeCounts(prev, cs) == [c \in Range(cs) |-> CountOf(prev, c)]

\* useEffect on results.length: clamp showRoundIndex.
clampShown(i, rs) == Max(0, Min(i, Max(0, Len(rs) - 1)))

GenIdle ==
    /\ genPc = "idle"
    /\ r = 0
    /\ newResults = <<>>
    /\ lastByesSet = {}
    /\ nextByeCounts = <<>>
    /\ nextMatchupSet = {}

\* The useState initial values of what the component shows and hands out.
ViewIdle ==
    /\ tvMode = FALSE
    /\ isFullscreen = FALSE
    /\ autoAdvance = FALSE
    /\ copyNotice = ""
    /\ copyModalOpen = FALSE
    /\ copyModalText = <<>>

\* The component after mount, for the inputs the session starts with (the mount
\* effect has filled byeCounts with a 0 for every couple).
AppIdle ==
    /\ ViewIdle
    /\ CallIdle
    /\ numCouples \in CoupleInputs
    /\ roundCount \in RoundCountInputs
    /\ courtNumbersInUse \in CourtsInUse
    /\ results = <<>>
    /\ byeCounts = alignByeCounts(<<>>, couples)
    /\ matchupSet = {}
    /\ showRoundIndex = 0
    /\ GenIdle

\* onChange of the Couples input, then the couples.length effect.
SetNumCouples ==
    /\ genPc = "idle"
    /\ results = <<>>
    /\ \E v \in CoupleInputs :
          /\ v # numCouples
          /\ numCouples' = v
          /\ byeCounts' = IF Len(couplesOf(v)) # Len(couples)
                          THEN alignByeCounts(byeCounts, couplesOf(v))
                          ELSE byeCounts
    /\ UNCHANGED <<roundCount, courtNumbersInUse, results, matchupSet,
                   showRoundIndex, genVars, schedVars, uiVars, searchVars, viewVars, callVars>>

\* onChange of the Available courts input or of the court list input: the
\* courts in use are recomputed.
SetCourts ==
    /\ genPc = "idle"
    /\ results = <<>>
    /\ \E v \in CourtsInUse : v # courtNumbersInUse /\ courtNumbersInUse' = v
    /\ UNCHANGED <<numCouples, roundCount, results, byeCounts,
                   matchupSet, showRoundIndex, genVars, schedVars, uiVars, searchVars, viewVars, callVars>>

\* onChange of the Rounds to add input, typing a value of S.
SetRoundCountIn(S) ==
    /\ genPc = "idle"
    /\ \E v \in S : v # roundCount /\ roundCount' = v
    /\ UNCHANGED <<numCouples, courtNumbersInUse, results, byeCounts,
                   matchupSet, showRoundIndex, genVars, schedVars, uiVars, searchVars, viewVars, callVars>>

SetRoundCount == SetRoundCountIn(RoundCountInputs)

\* resetHistory leaving the matchup history in place.
resetHistoryKeepMatchups ==
    /\ genPc = "idle"
    /\ results' = <<>>
    /\ byeCounts' = <<>>
    /\ showRoundIndex' = 0
    /\ UNCHANGED <<numCouples, roundCount, courtNumbersInUse, matchupSet, genVars, schedVars, uiVars, searchVars, viewVars, callVars>>

resetHistory ==
    /\ genPc = "idle"
    /\ results' = <<>>
    /\ byeCounts' = <<>>
    /\ matchupSet' = {}
    /\ showRoundIndex' = 0
    /\ UNCHANGED <<numCouples, roundCount, courtNumbersInUse, genVars, schedVars, uiVars, searchVars, viewVars, callVars>>

\* roundsN taking the input as typed.
roundsNUnclamped == roundCount

roundsN == clampInt(roundCount, 1, 10)

\* generate() is entered: the locals before the loop.  Sessions are cut
\* off at `cap` rounds.
GenerateBeginUpTo(cap) ==
    /\ genPc = "idle"
    /\ canPlay
    /\ Len(results) + roundsN <= cap
    /\ genPc' = "loop"
    /\ r' = 0
    /\ newResults' = <<>>
    /\ lastByesSet' = IF Len(results) > 0 THEN Range(results[Len(results)].byes) ELSE {}
    /\ nextByeCounts' = byeCounts
    /\ nextMatchupSet' = matchupSet
    /\ UNCHANGED <<stateVars, schedVars, uiVars, searchVars, viewVars, callVars>>

GenerateBegin == GenerateBeginUpTo(MaxRounds)

\* The round one pass of the loop builds from the byes and the shuffles drawn.
roundOf(cs, courts, byes, samples, matchups) ==
    LET playableCourts == Min(Len(courts), Len(cs) \div 2)
        courtsThisRound == Slice(courts, 0, playableCourts)
        played == buildMatchesAvoidRepeats(samples, courtsThisRound, matchups)
        rest == Slice(courts, playableCourts, Len(courts))
        openCourts == [i \in 1..Len(rest) |->
                          [court |-> rest[i], team1 |-> EmptyName, team2 |-> EmptyName,
                           isOpen |-> TRUE]]
    IN  [courtsOut |-> played.courtsOut \o openCourts,
         byes |-> byes,
         repeatsUsed |-> played.repeatsUsed]

byeSlotsOf(cs, courts) ==
    Max(0, Len(cs) - 2 * Min(Len(courts), Len(cs) \div 2))

\* addByes adding 2 per bye.
addByesDouble(counts, byes) ==
    [c \in DOMAIN counts \cup Range(byes) |->
        IF c \in Range(byes) THEN CountOf(counts, c) + 2 ELSE counts[c]]

\* addByes counting the round for every couple of the ledger.
addByesAll(counts, byes) ==
    [c \in DOMAIN counts \cup Range(byes) |-> CountOf(counts, c) + 1]

\* byes.forEach((b) => (nextByeCounts[b] = (nextByeCounts[b] ?? 0) + 1))
addByes(counts, byes) ==
    [c \in DOMAIN counts \cup Range(byes) |->
        IF c \in Range(byes) THEN CountOf(counts, c) + 1 ELSE counts[c]]

\* addMatchups recording nothing.
addMatchupsNone(matchups, courtsOut) == matchups

\* addMatchups recording the OPEN entries too.
addMatchupsOpen(matchups, courtsOut) ==
    matchups \cup {pairKey(courtsOut[i].team1, courtsOut[i].team2) :
                      i \in 1..Len(courtsOut)}

\* playedCourtsOut.forEach((m) => nextMatchupSet.add(pairKey(m.team1, m.team2)))
addMatchups(matchups, courtsOut) ==
    matchups \cup {pairKey(courtsOut[i].team1, courtsOut[i].team2) :
                      i \in {j \in 1..Len(courtsOut) : ~courtsOut[j].isOpen}}

\* One pass of the loop of generate().
GenerateRound ==
    /\ genPc = "loop"
    /\ r < roundsN
    /\ \E byes \in chooseByesFair(couples, nextByeCounts,
                                  byeSlotsOf(couples, courtNumbersInUse), lastByesSet) :
          LET active == Filter(couples, Range(couples) \ Range(byes))
              courtsThisRound ==
                  Slice(courtNumbersInUse, 0,
                        Min(Len(courtNumbersInUse), Len(couples) \div 2))
          IN  \E samples \in samplesOf(active, courtsThisRound) :
                 LET round == roundOf(couples, courtNumbersInUse, byes, samples,
                                      nextMatchupSet)
                 IN  /\ lastByesSet' = Range(byes)
                     /\ nextByeCounts' = addByes(nextByeCounts, byes)
                     /\ nextMatchupSet' = addMatchups(nextMatchupSet, round.courtsOut)
                     /\ newResults' = Append(newResults, round)
    /\ r' = r + 1
    /\ UNCHANGED <<genPc, stateVars, schedVars, uiVars, searchVars, viewVars, callVars>>

\* The loop ends: the four setState calls, then the results.length effect.
GenerateCommit ==
    /\ genPc = "loop"
    /\ r >= roundsN
    /\ byeCounts' = nextByeCounts
    /\ matchupSet' = nextMatchupSet
    /\ results' = results \o newResults
    /\ showRoundIndex' = clampShown(0, results \o newResults)
    /\ genPc' = "idle"
    /\ r' = 0
    /\ newResults' = <<>>
    /\ lastByesSet' = {}
    /\ nextByeCounts' = <<>>
    /\ nextMatchupSet' = {}
    /\ UNCHANGED <<numCouples, roundCount, courtNumbersInUse, schedVars, uiVars, searchVars,
                   viewVars, callVars>>

\* No buildMatchesAvoidRepeats call is being followed.
SearchIdle ==
    /\ searchActive = <<>>
    /\ searchCourts = <<>>
    /\ searchMatchups = {}
    /\ searchAttempt = 0
    /\ searchBest = NoBest
    /\ searchOut = matchesOut(NoBest, <<>>)
    /\ searchPc = "idle"
    /\ searchSamples = <<>>

NoArgs == [mode |-> "couples", participantCount |-> 0, courtNumbers |-> <<>>, games |-> 0]
NoResult == [rounds |-> <<>>, error |-> ""]

SchedIdle ==
    /\ args = NoArgs
    /\ result = NoResult
    /\ g = 0
    /\ pc = "idle"
    /\ UiIdle

InitSchedule ==
    /\ SchedIdle
    /\ SearchIdle
    /\ AppIdle
    /\ numCouples = 2
    /\ roundCount = 2
    /\ courtNumbersInUse = <<1>>

\* generateSchedule is entered: arguments are bound and validated.  The function
\* keeps nothing between calls (every local is rebuilt), so a behaviour is one call.
Call ==
    /\ pc = "idle"
    /\ \E mode \in Modes, participantCount \in ParticipantCounts,
          courtNumbers \in CourtLists, games \in GameCounts :
          LET a == [mode |-> mode, participantCount |-> participantCount,
                    courtNumbers |-> courtNumbers, games |-> games]
          IN  /\ UNCHANGED <<stateVars, genVars, searchVars, viewVars, uiVars, callVars>>
              /\ args' = a
              /\ IF validate(a) # ""
                 THEN /\ result' = [rounds |-> <<>>, error |-> validate(a)]
                      /\ g' = 0
                      /\ pc' = "returned"
                 ELSE /\ result' = NoResult
                      /\ g' = 1
                      /\ pc' = "loop"

\* One pass of the for loop: shuffle, split, push.
GenRound ==
    /\ pc = "loop"
    /\ g <= args.games
    /\ \E shuffled \in shuffle(buildParticipants(args.mode, args.participantCount)) :
          result' = [result EXCEPT !.rounds = Append(@, makeRound(args, g, shuffled))]
    /\ g' = g + 1
    /\ UNCHANGED <<args, pc, stateVars, genVars, searchVars, viewVars, uiVars, callVars>>

\* The loop ends: return { rounds, error: "" }.
Return ==
    /\ pc = "loop"
    /\ g > args.games
    /\ pc' = "returned"
    /\ UNCHANGED <<args, result, g, stateVars, genVars, searchVars, viewVars, uiVars, callVars>>

NextSchedule == Call \/ GenRound \/ Return

SpecSchedule == InitSchedule /\ [][NextSchedule]_vars

Init ==
    /\ SchedIdle
    /\ SearchIdle
    /\ AppIdle

Next ==
    \/ SetNumCouples
    \/ SetCourts
    \/ SetRoundCount
    \/ resetHistory
    \/ GenerateBegin
    \/ GenerateRound
    \/ GenerateCommit

Spec == Init /\ [][Next]_vars

(***************************************************************************)
(* Longer sessions of generate on one court: sessions of up to             *)
(* MaxSessionRounds rounds with the couples and the court fixed, which is  *)
(* where a bucket of equal bye counts mixes couples that sat out the round *)
(* before with couples that did not, and where a pair of couples can meet  *)
(* a third time.                                                           *)
(***************************************************************************)
InitSession ==
    /\ SchedIdle
    /\ SearchIdle
    /\ AppIdle
    /\ numCouples \in 2..MaxCouples
    /\ Len(courtNumbersInUse) = 1

SetRoundCountSession == SetRoundCountIn(1..MaxSessionRounds)

GenerateBeginSession == GenerateBeginUpTo(MaxSessionRounds)

NextSession ==
    \/ SetRoundCountSession
    \/ resetHistory
    \/ GenerateBeginSession
    \/ GenerateRound
    \/ GenerateCommit

SpecSession == InitSession /\ [][NextSession]_vars

(***************************************************************************)
(* buildMatchesAvoidRepeats attempt by attempt: one call on an active      *)
(* list, a court list and a matchup history drawn from bounded sets, one   *)
(* step per pass of its `for` loop.                                        *)
(***************************************************************************)
\* The keys of all pairs of the first MaxSearchCouples couples.
SearchKeys ==
    {pairKey(a, b) : a \in 1..MaxSearchCouples, b \in 1..MaxSearchCouples} \
        {pairKey(a, a) : a \in 1..MaxSearchCouples}

InitSearch ==
    /\ SchedIdle
    /\ AppIdle
    /\ numCouples = 2
    /\ roundCount = 2
    /\ courtNumbersInUse = <<1>>
    /\ searchActive \in {[i \in 1..n |-> defaultCoupleName(i)] : n \in 0..MaxSearchCouples}
    /\ searchCourts \in CourtLists
    /\ searchMatchups \in SUBSET SearchKeys
    /\ searchAttempt = 0
    /\ searchBest = NoBest
    /\ searchOut = matchesOut(NoBest, <<>>)
    /\ searchPc = "loop"
    /\ searchSamples = <<>>

\* canAttempt allowing one attempt only.
canAttemptOnce(at) == at < 1

\* The loop condition: attempt < maxRetries.
canAttempt(at) == at < maxRetries

\* if (repeats < bestRepeats) { bestRepeats = repeats; best = matches; }
keepBest(best, cand) ==
    IF best.found = FALSE \/ cand.repeats < best.repeats
    THEN [found |-> TRUE, matches |-> cand.matches, repeats |-> cand.repeats]
    ELSE best

\* One pass of the `for` loop: a shuffle of the pool, the greedy pairing, the
\* comparison with the best so far, the break at 0 repeats.
SearchAttempt ==
    /\ searchPc = "loop"
    /\ canAttempt(searchAttempt)
    /\ \E remaining \in shuffle(poolOf(searchActive, searchCourts)) :
          LET cand == attempt(remaining, searchMatchups)
              nb == keepBest(searchBest, cand)
          IN  /\ searchBest' = nb
              /\ IF nb # searchBest /\ nb.repeats = 0
                 THEN searchPc' = "out" /\ searchAttempt' = searchAttempt
                 ELSE searchPc' = "loop" /\ searchAttempt' = searchAttempt + 1
    /\ UNCHANGED <<searchActive, searchCourts, searchMatchups, searchOut,
                   searchSamples, schedVars, uiVars, stateVars, genVars, viewVars, callVars>>

\* The loop condition fails: the budget is spent.
SearchExhausted ==
    /\ searchPc = "loop"
    /\ ~canAttempt(searchAttempt)
    /\ searchPc' = "out"
    /\ UNCHANGED <<searchActive, searchCourts, searchMatchups, searchAttempt,
                   searchBest, searchOut, searchSamples, schedVars, uiVars, stateVars, genVars, viewVars, callVars>>

\* After the loop: the entries are built and returned.
SearchReturn ==
    /\ searchPc = "out"
    /\ searchOut' = matchesOut(searchBest, searchCourts)
    /\ searchPc' = "returned"
    /\ UNCHANGED <<searchActive, searchCourts, searchMatchups, searchAttempt,
                   searchBest, searchSamples, schedVars, uiVars, stateVars, genVars, viewVars, callVars>>

NextSearch ==
    \/ SearchAttempt
    \/ SearchExhausted
    \/ SearchReturn

SpecSearch == InitSearch /\ [][NextSearch]_vars

(***************************************************************************)
(* buildMatchesAvoidRepeats as one step on the shuffles its attempts draw: *)
(* the first MaxSearchDraws results of shuffle(pool) are drawn beforehand  *)
(* and kept, so that the attempt kept can be compared with the attempts    *)
(* sampled.  Attempts after the last modelled draw redraw an order already *)
(* drawn, which never replaces `best`.                                     *)
(***************************************************************************)
InitDraws ==
    /\ SchedIdle
    /\ AppIdle
    /\ numCouples = 2
    /\ roundCount = 2
    /\ courtNumbersInUse = <<1>>
    /\ searchActive \in {[i \in 1..n |-> defaultCoupleName(i)] : n \in 0..MaxSearchCouples}
    /\ searchCourts \in CourtLists
    /\ searchMatchups \in SUBSET SearchKeys
    /\ searchSamples \in UNION {[1..n -> shuffle(poolOf(searchActive, searchCourts))] :
                                    n \in 1..MaxSearchDraws}
    /\ searchAttempt = 0
    /\ searchBest = NoBest
    /\ searchOut = matchesOut(NoBest, <<>>)
    /\ searchPc = "drawn"

\* The value of the loop counter `attempt` when the loop over the shuffles
\* `samples` is left, from attempt number `at` (counted from 1) with `best` kept.
RECURSIVE attemptsOf(_, _, _, _)
attemptsOf(samples, matchups, at, best) ==
    IF at > Len(samples) \/ at > maxRetries THEN at - 1
    ELSE LET nb == keepBest(best, attempt(samples[at], matchups))
         IN  IF nb # best /\ nb.repeats = 0 THEN at - 1
             ELSE attemptsOf(samples, matchups, at + 1, nb)

\* The whole `for` loop on the shuffles drawn.
SearchRun ==
    /\ searchPc = "drawn"
    /\ searchBest' = search(searchSamples, searchMatchups, 1, NoBest)
    /\ searchAttempt' = attemptsOf(searchSamples, searchMatchups, 1, NoBest)
    /\ searchPc' = "out"
    /\ UNCHANGED <<searchActive, searchCourts, searchMatchups, searchOut,
                   searchSamples, schedVars, uiVars, stateVars, genVars, viewVars, callVars>>

NextDraws ==
    \/ SearchRun
    \/ SearchReturn

SpecDraws == InitDraws /\ [][NextDraws]_vars

(***************************************************************************)
(* The component with what it shows and hands out: copy, export, round     *)
(* navigation, TV mode, fullscreen and auto-advance next to Generate,      *)
(* Reset and the couples input, for 2 or 3 couples on one court and two    *)
(* rounds per Generate.  generate() and every handler run to completion,   *)
(* so nothing happens between the passes of the loop.  A text is the       *)
(* sequence of its lines; a line is its wording and the values printed in  *)
(* it.                                                                     *)
(***************************************************************************)
Line(kind, items) == [kind |-> kind, items |-> items]

\* The lines asText pushes for the round at index idx (0-based).
roundLines(rd, idx) ==
    <<Line("ROUND", <<idx + 1>>)>>
    \o (IF Len(rd.courtsOut) = 0 THEN <<Line("(No playable courts)", <<>>)>> ELSE <<>>)
    \o [i \in 1..Len(rd.courtsOut) |->
           IF rd.courtsOut[i].isOpen
           THEN Line("Court: OPEN", <<rd.courtsOut[i].court>>)
           ELSE Line("Court: vs", <<rd.courtsOut[i].court, rd.courtsOut[i].team1,
                                    rd.courtsOut[i].team2>>)]
    \o (IF Len(rd.byes) > 0 THEN <<Line("Byes", rd.byes)>> ELSE <<>>)
    \o (IF rd.repeatsUsed # 0
        THEN <<Line("(Used repeat matchups - unavoidable)", <<rd.repeatsUsed>>)>>
        ELSE <<>>)
    \o <<Line("", <<>>)>>

RECURSIVE allRoundLines(_, _)
allRoundLines(rounds, idx) ==
    IF idx >= Len(rounds) THEN <<>>
    ELSE roundLines(rounds[idx + 1], idx) \o allRoundLines(rounds, idx + 1)

\* Object.entries(byeCounts).sort(by count, then by name), one line each.
RECURSIVE countLines(_, _)
countLines(counts, names) ==
    IF names = {} THEN <<>>
    ELSE LET first == CHOOSE c \in names :
                          \A d \in names :
                              \/ counts[c] < counts[d]
                              \/ counts[c] = counts[d] /\ c <= d
         IN  <<Line("count", <<first, counts[first]>>)>>
             \o countLines(counts, names \ {first})

asText(rounds, counts) ==
    allRoundLines(rounds, 0)
    \o (IF DOMAIN counts # {}
        THEN <<Line("BYE COUNTS (fair rotation)", <<>>)>> \o countLines(counts, DOMAIN counts)
        ELSE <<>>)

\* exportText (useMemo): "" is the text without lines.
exportText == IF Len(results) > 0 THEN asText(results, byeCounts) ELSE <<>>

InitView ==
    /\ SchedIdle
    /\ SearchIdle
    /\ AppIdle
    /\ numCouples \in 2..MaxViewCouples
    /\ roundCount = 2
    /\ courtNumbersInUse = <<1>>

\* onChange of the Couples input at any time, then the couples.length effect.
EditCouples ==
    /\ genPc = "idle"
    /\ ~tvMode
    /\ \E v \in 2..MaxViewCouples :
          /\ v # numCouples
          /\ numCouples' = v
          /\ byeCounts' = IF Len(couplesOf(v)) # Len(couples)
                          THEN alignByeCounts(byeCounts, couplesOf(v))
                          ELSE byeCounts
    /\ UNCHANGED <<roundCount, courtNumbersInUse, results, matchupSet,
                   showRoundIndex, genVars, schedVars, uiVars, searchVars, viewVars, callVars>>

\* Copy button: copyToClipboardSafe(exportText).  The clipboard API or
\* execCommand succeeds, or both fail and the text goes to the modal.
Copy ==
    /\ genPc = "idle"
    /\ ~tvMode
    /\ exportText # <<>>
    /\ \/ /\ copyNotice' = "Copied!"
          /\ UNCHANGED <<copyModalOpen, copyModalText>>
       \/ /\ copyModalText' = exportText
          /\ copyModalOpen' = TRUE
          /\ UNCHANGED copyNotice
    /\ UNCHANGED <<tvMode, isFullscreen, autoAdvance,
                   stateVars, genVars, schedVars, uiVars, searchVars, callVars>>

\* The timeout of the copyNotice effect.
CopyNoticeTimeout ==
    /\ genPc = "idle"
    /\ copyNotice # ""
    /\ copyNotice' = ""
    /\ UNCHANGED <<tvMode, isFullscreen, autoAdvance, copyModalOpen, copyModalText,
                   stateVars, genVars, schedVars, uiVars, searchVars, callVars>>

\* onClose / Done of the copy modal.
CloseCopyModal ==
    /\ genPc = "idle"
    /\ copyModalOpen
    /\ copyModalOpen' = FALSE
    /\ UNCHANGED <<tvMode, isFullscreen, autoAdvance, copyNotice, copyModalText,
                   stateVars, genVars, schedVars, uiVars, searchVars, callVars>>

\* Export button: downloadText("pickleball-assignments.txt", exportText) hands
\* the text to the browser and sets no state of the component.
Export ==
    /\ genPc = "idle"
    /\ ~tvMode
    /\ exportText # <<>>
    /\ UNCHANGED vars

\* setShowRoundIndex(f(i)) that also drops the rounds after the one shown.
ShowRoundDropLater(i) ==
    /\ genPc = "idle"
    /\ showRoundIndex' = i
    /\ results' = SubSeq(results, 1, Min(Len(results), i + 1))
    /\ UNCHANGED <<numCouples, roundCount, courtNumbersInUse, byeCounts,
                   matchupSet, genVars, schedVars, uiVars, searchVars, viewVars, callVars>>

\* setShowRoundIndex(f(i)) with everything else kept.
ShowRound(i) ==
    /\ genPc = "idle"
    /\ showRoundIndex' = i
    /\ UNCHANGED <<numCouples, roundCount, courtNumbersInUse, results, byeCounts,
                   matchupSet, genVars, schedVars, uiVars, searchVars, viewVars, callVars>>

\* Prev, Next and Latest of the Results card (rendered with results only).
NavPrev == ~tvMode /\ Len(results) > 0 /\ showRoundIndex # 0
               /\ ShowRound(Max(0, showRoundIndex - 1))
NavNext == ~tvMode /\ Len(results) > 0 /\ showRoundIndex # Len(results) - 1
               /\ ShowRound(Min(Len(results) - 1, showRoundIndex + 1))
NavLatest == ~tvMode /\ Len(results) > 0 /\ ShowRound(Len(results) - 1)

\* Prev and Next of the Court Board.
TvPrev ==
    tvMode /\ ShowRound(IF Len(results) > 0
                        THEN (showRoundIndex - 1 + Len(results)) % Len(results) ELSE 0)

\* Next of the Court Board without the wrap.
TvNextNoWrap == tvMode /\ ShowRound(showRoundIndex + 1)

TvNext ==
    tvMode /\ ShowRound(IF Len(results) > 0
                        THEN (showRoundIndex + 1) % Len(results) ELSE 0)

\* The interval of the auto-advance effect fires.
AutoAdvanceTick ==
    /\ autoAdvance
    /\ Len(results) > 0
    /\ ShowRound((showRoundIndex + 1) % Len(results))

\* The TV button: setShowRoundIndex(0); setTvMode(true).
EnterTv ==
    /\ genPc = "idle"
    /\ ~tvMode
    /\ showRoundIndex' = 0
    /\ tvMode' = TRUE
    /\ UNCHANGED <<isFullscreen, autoAdvance, copyNotice, copyModalOpen, copyModalText,
                   numCouples, roundCount, courtNumbersInUse, results,
                   byeCounts, matchupSet, genVars, schedVars, uiVars, searchVars, callVars>>

\* The button of the Court Board that leaves it.
ExitTv ==
    /\ tvMode
    /\ tvMode' = FALSE
    /\ UNCHANGED <<isFullscreen, autoAdvance, copyNotice, copyModalOpen, copyModalText,
                   stateVars, genVars, schedVars, uiVars, searchVars, callVars>>

\* The Fullscreen button of the Court Board, when the request succeeds.
toggleFullscreen ==
    /\ tvMode
    /\ isFullscreen' = ~isFullscreen
    /\ UNCHANGED <<tvMode, autoAdvance, copyNotice, copyModalOpen, copyModalText,
                   stateVars, genVars, schedVars, uiVars, searchVars, callVars>>

\* The fullscreenchange event after the browser left fullscreen by itself.
onFsChange ==
    /\ genPc = "idle"
    /\ isFullscreen
    /\ isFullscreen' = FALSE
    /\ UNCHANGED <<tvMode, autoAdvance, copyNotice, copyModalOpen, copyModalText,
                   stateVars, genVars, schedVars, uiVars, searchVars, callVars>>

\* The Auto button of the Court Board.
ToggleAutoAdvance ==
    /\ tvMode
    /\ autoAdvance' = ~autoAdvance
    /\ UNCHANGED <<tvMode, isFullscreen, copyNotice, copyModalOpen, copyModalText,
                   stateVars, genVars, schedVars, uiVars, searchVars, callVars>>

\* Generate and Reset are offered in the main view only.
GenerateBeginView == ~tvMode /\ GenerateBeginUpTo(MaxRounds)
ResetView == ~tvMode /\ resetHistory

NextView ==
    \/ EditCouples
    \/ ResetView
    \/ GenerateBeginView
    \/ GenerateRound
    \/ GenerateCommit
    \/ Copy
    \/ CopyNoticeTimeout
    \/ CloseCopyModal
    \/ Export
    \/ NavPrev
    \/ NavNext
    \/ NavLatest
    \/ TvPrev
    \/ TvNext
    \/ AutoAdvanceTick
    \/ EnterTv
    \/ ExitTv
    \/ toggleFullscreen
    \/ onFsChange
    \/ ToggleAutoAdvance

SpecView == InitView /\ [][NextView]_vars

(***************************************************************************)
(* Round navigation over a growing history: Generate adds one round at a   *)
(* time, up to MaxSessionRounds, between Prev, Next, Latest, the Court     *)
(* Board's wrapping Prev and Next, auto-advance ticks and Reset.           *)
(***************************************************************************)
InitNav ==
    /\ SchedIdle
    /\ SearchIdle
    /\ AppIdle
    /\ numCouples \in 2..MaxViewCouples
    /\ roundCount = 1
    /\ courtNumbersInUse = <<1>>

GenerateBeginNav == ~tvMode /\ GenerateBeginUpTo(MaxSessionRounds)

NextNav ==
    \/ GenerateBeginNav
    \/ GenerateRound
    \/ GenerateCommit
    \/ ResetView
    \/ NavPrev
    \/ NavNext
    \/ NavLatest
    \/ TvPrev
    \/ TvNext
    \/ AutoAdvanceTick
    \/ EnterTv
    \/ ExitTv
    \/ ToggleAutoAdvance

SpecNav == InitNav /\ [][NextNav]_vars

(***************************************************************************)
(* One call of pairKey, and one call of clampInt, on any arguments of a    *)
(* bounded size.  Nothing else of either program takes part.               *)
(***************************************************************************)
\* The App.tsx component as mounted, outside of the two calls.
Mounted ==
    /\ ViewIdle
    /\ GenIdle
    /\ SearchIdle
    /\ numCouples = 2
    /\ roundCount = 2
    /\ courtNumbersInUse = <<1>>
    /\ results = <<>>
    /\ byeCounts = alignByeCounts(<<>>, couplesOf(2))
    /\ matchupSet = {}
    /\ showRoundIndex = 0

\* Names: the default ones, and typed ones that may hold the separator's
\* characters or be empty.
DefaultNames == {defaultCoupleNameText(i) : i \in 1..MaxNames}
TypedNames == UNION {[1..k -> {"A", " ", Arrow}] : k \in 0..MaxNameLen}
Names == DefaultNames \cup TypedNames

InitPairKey ==
    /\ SchedIdle
    /\ Mounted
    /\ keyA \in Names
    /\ keyB \in Names
    /\ keyOut = <<>>
    /\ clampN = Num("finite", 0)
    /\ clampMin = 0
    /\ clampMax = 0
    /\ clampOut = 0
    /\ fnPc = "called"

PairKeyCall ==
    /\ fnPc = "called"
    /\ keyOut' = pairKeyText(keyA, keyB)
    /\ fnPc' = "returned"
    /\ UNCHANGED <<keyA, keyB, clampN, clampMin, clampMax, clampOut,
                   schedVars, uiVars, stateVars, genVars, searchVars, viewVars>>

\* pairKey is called again with the two names the other way round.
PairKeySwapped ==
    /\ fnPc = "returned"
    /\ keyA' = keyB
    /\ keyB' = keyA
    /\ keyOut' = pairKeyText(keyB, keyA)
    /\ fnPc' = "swapped"
    /\ UNCHANGED <<clampN, clampMin, clampMax, clampOut,
                   schedVars, uiVars, stateVars, genVars, searchVars, viewVars>>

NextPairKey == PairKeyCall \/ PairKeySwapped

SpecPairKey == InitPairKey /\ [][NextPairKey]_vars

\* Numbers: every multiple of 1 / Denominator up to MaxClamp and a bit, NaN
\* and the two infinities.
Numbers ==
    {Num("finite", q) : q \in (-(MaxClamp + 1) * Denominator)..((MaxClamp + 1) * Denominator)}
    \cup {Num("NaN", 0), Num("Infinity", 0), Num("-Infinity", 0)}

\* The ranges of the three calls in the component, and every small range.
ClampRanges ==
    {<<2, 40>>, <<1, 40>>, <<1, 10>>}
    \cup {<<a, b>> : a \in (-MaxClampRange)..MaxClampRange,
                      b \in (-MaxClampRange)..MaxClampRange}

InitClamp ==
    /\ SchedIdle
    /\ Mounted
    /\ keyA = <<>>
    /\ keyB = <<>>
    /\ keyOut = <<>>
    /\ clampN \in Numbers
    /\ \E rg \in ClampRanges : rg[1] <= rg[2] /\ clampMin = rg[1] /\ clampMax = rg[2]
    /\ clampOut = 0
    /\ fnPc = "called"

ClampCall ==
    /\ fnPc = "called"
    /\ clampOut' = clampIntNumber(clampN, clampMin, clampMax)
    /\ fnPc' = "returned"
    /\ UNCHANGED <<keyA, keyB, keyOut, clampN, clampMin, clampMax,
                   schedVars, uiVars, stateVars, genVars, searchVars, viewVars>>

NextClamp == ClampCall

SpecClamp == InitClamp /\ [][NextClamp]_vars

(***************************************************************************)
(* The component App of src/unnamed/part_000: the setup form, the TV view  *)
(* and their handlers.  Every handler runs to completion; handleGenerate   *)
(* leaves in args and result the call of generateSchedule it made.         *)
(***************************************************************************)
\* What is typed in the count, games and courts inputs: nothing or one
\* character, a digit or not, for the two numbers.
NumberTexts == {<<>>} \cup {<<c>> : c \in Digits \cup {"x"}}
CountTexts == {t \in NumberTexts : parsePositiveInt(t) <= MaxUiCount}
GamesTexts == {t \in NumberTexts : parsePositiveInt(t) <= MaxUiGames}
CourtsTexts == TextsUpTo(1)

\* Generate Assignments and Re-Generate.
handleGenerate ==
    LET participantCount == parsePositiveInt(countText)
        games == parsePositiveInt(gamesText)
        parsedCourts == parseCourtsInput(courtsText)
        a == [mode |-> uiMode, participantCount |-> participantCount,
              courtNumbers |-> parsedCourts.courts, games |-> games]
    IN  /\ IF parsedCourts.error.msg # ""
           THEN /\ uiError' = parsedCourts.error
                /\ uiRounds' = <<>>
                /\ UNCHANGED <<args, result, uiTvMode, tvGameIndex>>
           ELSE \E res \in generateSchedule(a) :
                   /\ args' = a
                   /\ result' = res
                   /\ uiError' = Err(res.error, <<>>)
                   /\ uiRounds' = res.rounds
                   /\ tvGameIndex' = 0
                   /\ uiTvMode' = IF res.error = "" THEN TRUE ELSE uiTvMode
        /\ UNCHANGED <<g, pc, uiMode, countText, courtsText, gamesText,
                       stateVars, genVars, searchVars, viewVars, callVars>>

\* Reset and Reset All.
handleReset ==
    /\ uiMode' = "couples"
    /\ countText' = <<>>
    /\ courtsText' = <<>>
    /\ gamesText' = <<>>
    /\ uiRounds' = <<>>
    /\ uiError' = NoErr
    /\ uiTvMode' = FALSE
    /\ tvGameIndex' = 0
    /\ UNCHANGED <<schedVars, stateVars, genVars, searchVars, viewVars, callVars>>

\* Exit TV Mode: setTvMode(false).
ExitTvMode ==
    /\ uiTvMode
    /\ uiTvMode' = FALSE
    /\ UNCHANGED <<uiMode, countText, courtsText, gamesText, uiRounds, uiError,
                   tvGameIndex, schedVars, stateVars, genVars, searchVars, viewVars, callVars>>

\* The index the TV view shows: tvGameIndex clamped into the rounds.
safeIndex == Min(Max(tvGameIndex, 0), Max(Len(uiRounds) - 1, 0))

\* Previous Game and Next Game of the TV view (disabled without canPrev, canNext).
PreviousGame ==
    /\ uiTvMode
    /\ Len(uiRounds) > 1 /\ safeIndex > 0
    /\ tvGameIndex' = Max(0, tvGameIndex - 1)
    /\ UNCHANGED <<uiMode, countText, courtsText, gamesText, uiRounds, uiError,
                   uiTvMode, schedVars, stateVars, genVars, searchVars, viewVars, callVars>>

NextGame ==
    /\ uiTvMode
    /\ Len(uiRounds) > 1 /\ safeIndex < Len(uiRounds) - 1
    /\ tvGameIndex' = Min(Len(uiRounds) - 1, tvGameIndex + 1)
    /\ UNCHANGED <<uiMode, countText, courtsText, gamesText, uiRounds, uiError,
                   uiTvMode, schedVars, stateVars, genVars, searchVars, viewVars, callVars>>

\* The inputs of the setup form, which the TV view does not render.
SetMode ==
    /\ ~uiTvMode
    /\ \E m \in Modes : m # uiMode /\ uiMode' = m
    /\ UNCHANGED <<countText, courtsText, gamesText, uiRounds, uiError, uiTvMode,
                   tvGameIndex, schedVars, stateVars, genVars, searchVars, viewVars, callVars>>

\* The count input reachable from the TV view too.
SetCountTextAnywhere ==
    /\ \E t \in CountTexts : t # countText /\ countText' = t
    /\ UNCHANGED <<uiMode, courtsText, gamesText, uiRounds, uiError, uiTvMode,
                   tvGameIndex, schedVars, stateVars, genVars, searchVars, viewVars, callVars>>

SetCountText ==
    /\ ~uiTvMode
    /\ \E t \in CountTexts : t # countText /\ countText' = t
    /\ UNCHANGED <<uiMode, courtsText, gamesText, uiRounds, uiError, uiTvMode,
                   tvGameIndex, schedVars, stateVars, genVars, searchVars, viewVars, callVars>>

SetCourtsText ==
    /\ ~uiTvMode
    /\ \E t \in CourtsTexts : t # courtsText /\ courtsText' = t
    /\ UNCHANGED <<uiMode, countText, gamesText, uiRounds, uiError, uiTvMode,
                   tvGameIndex, schedVars, stateVars, genVars, searchVars, viewVars, callVars>>

SetGamesText ==
    /\ ~uiTvMode
    /\ \E t \in GamesTexts : t # gamesText /\ gamesText' = t
    /\ UNCHANGED <<uiMode, countText, courtsText, uiRounds, uiError, uiTvMode,
                   tvGameIndex, schedVars, stateVars, genVars, searchVars, viewVars, callVars>>

\* The App.tsx component is not part of these behaviours: it stays as mounted.
AppFixed ==
    /\ SearchIdle
    /\ AppIdle
    /\ numCouples = 2
    /\ roundCount = 2
    /\ courtNumbersInUse = <<1>>

InitApp ==
    /\ SchedIdle
    /\ AppFixed

NextApp ==
    \/ SetMode
    \/ SetCountText
    \/ SetCourtsText
    \/ SetGamesText
    \/ handleGenerate
    \/ handleReset
    \/ ExitTvMode
    \/ PreviousGame
    \/ NextGame

SpecApp == InitApp /\ [][NextApp]_vars

(***************************************************************************)
(* One filled form of part_000 asking for one game, with any courts text   *)
(* of up to MaxTextLen characters that names at most MaxCourtsTyped        *)
(* courts, then Generate, Re-Generate, Exit TV Mode and Reset.             *)
(***************************************************************************)
InitCourts ==
    /\ AppFixed
    /\ args = NoArgs
    /\ result = NoResult
    /\ g = 0
    /\ pc = "idle"
    /\ uiMode \in Modes
    /\ countText \in CountTexts
    /\ courtsText \in {t \in TextsUpTo(MaxTextLen) :
                         Len(parseCourtsInput(t).courts) <= MaxCourtsTyped}
    /\ gamesText = <<"1">>
    /\ uiRounds = <<>>
    /\ uiError = NoErr
    /\ uiTvMode = FALSE
    /\ tvGameIndex = 0

NextCourts ==
    \/ handleGenerate
    \/ handleReset
    \/ ExitTvMode

SpecCourts == InitCourts /\ [][NextCourts]_vars

(***************************************************************************)
(* Properties of generateSchedule (checked under SpecSchedule).            *)
(***************************************************************************)
RECURSIVE FlattenGroups(_)
FlattenGroups(courts) ==
    IF Len(courts) = 0 THEN <<>>
    ELSE courts[1].group \o FlattenGroups(Tail(courts))

\* Everybody a round lists: its byes, then its court groups in order.
RoundMembers(rd) == rd.byes \o FlattenGroups(rd.courts)

\* Number of the first k-1 rounds of rs whose bye list holds p.
ByesBefore(rs, k, p) ==
    Cardinality({j \in 1..(k - 1) : p \in Range(rs[j].byes)})

usableCourtsOf(a) ==
    Min(Len(a.courtNumbers), a.participantCount \div unitsPerCourtOf(a.mode))

\* C1: every round produced by a call lists each of the participantCount
\* participants exactly once, either on bye or in one court group.
C1_Partition ==
    \A k \in 1..Len(result.rounds) :
        LET m == RoundMembers(result.rounds[k])
        IN  /\ Len(m) = args.participantCount
            /\ Range(m) = 1..args.participantCount

\* C1 witness: a returned round with a bye and two court groups.
C1_Witness ==
    /\ pc = "returned"
    /\ Len(result.rounds) >= 1
    /\ Len(result.rounds[1].byes) >= 1
    /\ Len(result.rounds[1].courts) >= 2
    /\ C1_Partition

\* C2: every court group of every round has exactly unitsPerCourt members
\* (2 in couples mode, 4 in round-robin mode).
C2_GroupSize ==
    \A k \in 1..Len(result.rounds) :
        \A c \in 1..Len(result.rounds[k].courts) :
            Len(result.rounds[k].courts[c].group) = unitsPerCourtOf(args.mode)

\* C3: the number of byes of every round is
\* max(0, participantCount - usableCourts * unitsPerGroup).
C3_ByeCount ==
    \A k \in 1..Len(result.rounds) :
        Len(result.rounds[k].byes) =
            Max(0, args.participantCount - usableCourtsOf(args) * unitsPerCourtOf(args.mode))

\* C4: in every round, everybody on bye had, at the start of the round, at most
\* as many earlier byes as everybody not on bye.
C4_FairByes ==
    \A k \in 1..Len(result.rounds) :
        \A p \in Range(result.rounds[k].byes) :
            \A q \in (1..args.participantCount) \ Range(result.rounds[k].byes) :
                ByesBefore(result.rounds, k, p) <= ByesBefore(result.rounds, k, q)

\* C7: a call whose arguments pass validation returns an empty error and exactly
\* `games` rounds, numbered 1..games in order.
C7_AllRounds ==
    (pc = "returned" /\ args.participantCount > 0 /\ Len(args.courtNumbers) > 0
        /\ args.games > 0)
    => /\ result.error = ""
       /\ Len(result.rounds) = args.games
       /\ \A k \in 1..Len(result.rounds) : result.rounds[k].gameNumber = k

\* C7 witness: a call for two games has returned.
C7_Witness ==
    /\ pc = "returned"
    /\ args.participantCount > 0
    /\ Len(args.courtNumbers) > 0
    /\ args.games = 2
    /\ Len(result.rounds) = 2

\* C8: every round has min(#courtNumbers, floor(participantCount / unitsPerGroup))
\* court entries and entry i carries the label courtNumbers[i].
C8_CourtEntries ==
    \A k \in 1..Len(result.rounds) :
        /\ Len(result.rounds[k].courts) = usableCourtsOf(args)
        /\ \A c \in 1..Len(result.rounds[k].courts) :
               result.rounds[k].courts[c].courtNumber = args.courtNumbers[c]

\* C9: a call with participantCount <= 0 returns no rounds and a non-empty error.
C9_NoParticipants ==
    (pc = "returned" /\ args.participantCount <= 0)
    => (result.rounds = <<>> /\ result.error # "")

\* C9 witness: a call with participantCount <= 0 and otherwise valid arguments
\* has returned.
C9_Witness ==
    /\ pc = "returned"
    /\ args.participantCount <= 0
    /\ Len(args.courtNumbers) > 0
    /\ args.games > 0
    /\ result.error = ErrParticipants

allRounds == results \o newResults

\* C5: since the last reset, with the couples and courts unchanged, after every
\* generated round the largest and the smallest number of byes any couple has
\* had differ by at most 1.
C5_ByeSpread ==
    \A p, q \in Range(couples) :
        ByesBefore(allRounds, Len(allRounds) + 1, p)
            <= ByesBefore(allRounds, Len(allRounds) + 1, q) + 1

\* C5 witness: two rounds in, a couple has had its second bye and nobody is
\* without one.
C5_Witness ==
    /\ Len(allRounds) = 2
    /\ \E p \in Range(couples) : ByesBefore(allRounds, 3, p) = 2
    /\ \A q \in Range(couples) : ByesBefore(allRounds, 3, q) >= 1

\* The case of C6 in round k: X has strictly fewer earlier byes than Y and the
\* round needs fewer byes than there are couples at Y's count or below.
C6_Case(k, X, Y) ==
    /\ ByesBefore(allRounds, k, X) < ByesBefore(allRounds, k, Y)
    /\ Len(allRounds[k].byes) <
           Cardinality({c \in Range(couples) :
                           ByesBefore(allRounds, k, c) <= ByesBefore(allRounds, k, Y)})

\* C6 as stated: in that case X is never on bye in the round while Y is on bye.
C6_AsStated ==
    \A k \in 1..Len(allRounds) :
        \A X, Y \in Range(couples) :
            C6_Case(k, X, Y)
            => ~(X \in Range(allRounds[k].byes) /\ Y \in Range(allRounds[k].byes))

\* C6 amended: in that case Y (the one with more earlier byes) is never on bye
\* in the round while X (the one with fewer) is not.
C6_Amended ==
    \A k \in 1..Len(allRounds) :
        \A X, Y \in Range(couples) :
            C6_Case(k, X, Y)
            => ~(Y \in Range(allRounds[k].byes) /\ X \notin Range(allRounds[k].byes))

\* C6 witness: a round in that case with both X and Y on bye.
C6_Witness ==
    \E k \in 1..Len(allRounds) :
        \E X, Y \in Range(couples) :
            /\ C6_Case(k, X, Y)
            /\ X \in Range(allRounds[k].byes)
            /\ Y \in Range(allRounds[k].byes)

(***************************************************************************)
(* The round properties C1-C4 and C8 on the rounds of generate (App.tsx),  *)
(* checked under Spec: the session scheduler keeps all of them.            *)
(***************************************************************************)
RECURSIVE PlayedTeams(_)
PlayedTeams(courtsOut) ==
    IF Len(courtsOut) = 0 THEN <<>>
    ELSE (IF courtsOut[1].isOpen THEN <<>>
          ELSE <<courtsOut[1].team1, courtsOut[1].team2>>)
         \o PlayedTeams(Tail(courtsOut))

playableCourtsOf(cs, courts) == Min(Len(courts), Len(cs) \div 2)

\* Every round of generate lists each couple exactly once, on bye or in one
\* match (C1 on App.tsx).
GeneratePartition ==
    \A k \in 1..Len(allRounds) :
        LET m == allRounds[k].byes \o PlayedTeams(allRounds[k].courtsOut)
        IN  /\ Len(m) = Len(couples)
            /\ Range(m) = Range(couples)

\* Every round of generate has byeSlots byes, a real match of two couples on
\* each of the first playableCourts courts in input order, and OPEN entries
\* on the other courts (C2, C3 and C8 on App.tsx).
GenerateShape ==
    \A k \in 1..Len(allRounds) :
        LET rd == allRounds[k]
            playable == playableCourtsOf(couples, courtNumbersInUse)
        IN  /\ Len(rd.byes) = Max(0, Len(couples) - 2 * playable)
            /\ Len(rd.courtsOut) = Len(courtNumbersInUse)
            /\ \A i \in 1..Len(rd.courtsOut) :
                   /\ rd.courtsOut[i].court = courtNumbersInUse[i]
                   /\ rd.courtsOut[i].isOpen <=> i > playable
                   /\ ~rd.courtsOut[i].isOpen
                          => /\ rd.courtsOut[i].team1 \in Range(couples)
                             /\ rd.courtsOut[i].team2 \in Range(couples)
                             /\ rd.courtsOut[i].team1 # rd.courtsOut[i].team2

\* In every round of generate, everybody on bye had at most as many earlier
\* byes as everybody not on bye (C4 on App.tsx).
GenerateFairByes ==
    \A k \in 1..Len(allRounds) :
        \A p \in Range(allRounds[k].byes) :
            \A q \in Range(couples) \ Range(allRounds[k].byes) :
                ByesBefore(allRounds, k, p) <= ByesBefore(allRounds, k, q)

(***************************************************************************)
(* The ledger of generate (checked under Spec).                            *)
(***************************************************************************)
\* The bye counts in force: the working copy of a call in progress, the
\* committed state otherwise.
ledgerByeCounts == IF genPc = "loop" THEN nextByeCounts ELSE byeCounts

\* The ledger's bye count of every couple is the number of rounds since the
\* last reset whose bye list holds that couple.
LedgerCounts ==
    /\ \A c \in Range(couples) :
           CountOf(ledgerByeCounts, c) = ByesBefore(allRounds, Len(allRounds) + 1, c)
    /\ \A c \in Range(couples) :
           CountOf(byeCounts, c) = ByesBefore(results, Len(results) + 1, c)

\* No count of the ledger decreases while rounds are generated, and a pass of
\* the loop adds exactly 1 to the couples on bye in the round it appends and
\* nothing to the others.
LedgerSteps ==
    [][/\ (genPc = "loop" /\ genPc' = "loop")
           => \A c \in Range(couples) :
                  CountOf(nextByeCounts', c) =
                      CountOf(nextByeCounts, c)
                      + (IF r' = r + 1 /\ c \in Range(newResults'[Len(newResults')].byes)
                         THEN 1 ELSE 0)
       /\ results' # <<>>
           => \A c \in Range(couples) : CountOf(byeCounts', c) >= CountOf(byeCounts, c)]_vars

\* C11: for a fixed set of couples, the ledger's bye count of each couple
\* always equals the number of rounds listing it on bye, never decreases, and
\* grows by exactly 1 with each round in which the couple is on bye.
C11_Ledger == []LedgerCounts /\ LedgerSteps

\* C11 witness: a committed session in which a couple has had two byes and the
\* ledger says so.
C11_Witness ==
    /\ genPc = "idle"
    /\ Len(results) = 2
    /\ \E c \in Range(couples) :
           /\ ByesBefore(results, 3, c) = 2
           /\ CountOf(byeCounts, c) = 2

(***************************************************************************)
(* Court entries of generateSchedule (checked under SpecSchedule).         *)
(***************************************************************************)
\* C12: a round of a call holds no more court entries than courts that can be
\* filled (min of the courts listed and floor(participants / group size)),
\* and no court entry without a full group.
C12_NoPartialCourt ==
    \A k \in 1..Len(result.rounds) :
        LET cts == result.rounds[k].courts
        IN  /\ Len(cts) <= usableCourtsOf(args)
            /\ \A i \in 1..Len(cts) :
                   Cardinality(Range(cts[i].group)) = unitsPerCourtOf(args.mode)

(***************************************************************************)
(* OPEN courts of generate (checked under Spec).                           *)
(***************************************************************************)
\* The matchup history in force: the working copy of a call in progress, the
\* committed state otherwise.
ledgerMatchups == IF genPc = "loop" THEN nextMatchupSet ELSE matchupSet

\* The keys of the matches played in the rounds rs.
playedKeys(rs) ==
    UNION {{pairKey(rs[k].courtsOut[i].team1, rs[k].courtsOut[i].team2) :
               i \in {j \in 1..Len(rs[k].courtsOut) : ~rs[k].courtsOut[j].isOpen}} :
           k \in 1..Len(rs)}

\* C13: every round lists every court in use exactly once, in input order; the
\* first playableCourts entries are real matches of two couples, the others
\* are OPEN with empty team names; and the matchup history holds exactly the
\* keys of the real matches, nothing for an OPEN entry.
C13_OpenCourts ==
    /\ \A k \in 1..Len(allRounds) :
           LET co == allRounds[k].courtsOut
               playable == playableCourtsOf(couples, courtNumbersInUse)
           IN  /\ [i \in 1..Len(co) |-> co[i].court] = courtNumbersInUse
               /\ \A i \in 1..Len(co) :
                      IF i <= playable
                      THEN /\ ~co[i].isOpen
                           /\ {co[i].team1, co[i].team2} \subseteq Range(couples)
                           /\ co[i].team1 # co[i].team2
                      ELSE /\ co[i].isOpen
                           /\ co[i].team1 = EmptyName
                           /\ co[i].team2 = EmptyName
    /\ ledgerMatchups = playedKeys(allRounds)
    /\ pairKey(EmptyName, EmptyName) \notin ledgerMatchups

\* C13 witness: a committed round of two courts whose second court is OPEN,
\* with one key in the matchup history.
C13_Witness ==
    /\ genPc = "idle"
    /\ Len(results) >= 1
    /\ Len(courtNumbersInUse) = 2
    /\ ~results[1].courtsOut[1].isOpen
    /\ results[1].courtsOut[2].isOpen
    /\ Cardinality(matchupSet) = 1

(***************************************************************************)
(* Sessions of three rounds on one court (checked under SpecSession).      *)
(***************************************************************************)
\* Number of the rounds rs in which the couples a and b played each other.
TimesMatched(rs, a, b) ==
    Cardinality({k \in 1..Len(rs) : pairKey(a, b) \in playedKeys(<<rs[k]>>)})

RECURSIVE TotalRepeats(_)
TotalRepeats(rs) ==
    IF Len(rs) = 0 THEN 0 ELSE rs[1].repeatsUsed + TotalRepeats(Tail(rs))

\* C14: with 4 couples on one court, every session of 3 rounds from an empty
\* history has a pair of couples matched in more than one round, and its
\* repeat counts add up to at least 1.
C14_ForcedRepeat ==
    (Len(couples) = 4 /\ Len(courtNumbersInUse) = 1 /\ Len(allRounds) >= 3)
        => /\ \E a \in Range(couples) : \E b \in Range(couples) \ {a} :
                  TimesMatched(SubSeq(allRounds, 1, 3), a, b) > 1
           /\ TotalRepeats(SubSeq(allRounds, 1, 3)) >= 1

\* C14 witness: such a session of 3 rounds, committed, whose third round
\* repeats the match of the first.
C14_Witness ==
    /\ genPc = "idle"
    /\ Len(couples) = 4
    /\ Len(courtNumbersInUse) = 1
    /\ Len(results) = 3
    /\ results[3].repeatsUsed = 1
    /\ playedKeys(<<results[3]>>) = playedKeys(<<results[1]>>)

\* The couples on bye in the round before round k of rs (none before the
\* first round of a session).
PreviousByes(rs, k) == IF k > 1 THEN Range(rs[k - 1].byes) ELSE {}

\* Position of c in the sequence s (0 when absent).
IndexOf(s, c) == IF c \in Range(s) THEN CHOOSE i \in 1..Len(s) : s[i] = c ELSE 0

\* C18: in every round, if a couple that was on bye in the round before is
\* chosen for a bye, then every couple with the same bye count at the start of
\* the round that was not on bye in the round before is chosen too, and stands
\* before it in the bye list.
C18_PreviousByesLast ==
    \A k \in 1..Len(allRounds) :
        LET byes == allRounds[k].byes
            prev == PreviousByes(allRounds, k)
        IN  \A p \in Range(byes) \cap prev :
                \A q \in Range(couples) \ prev :
                    ByesBefore(allRounds, k, q) = ByesBefore(allRounds, k, p)
                        => /\ q \in Range(byes)
                           /\ IndexOf(byes, q) < IndexOf(byes, p)

\* C18 witness: a round in which a couple on bye the round before is chosen
\* again while a couple of the same count that was not on bye the round before
\* exists (and is chosen before it).
C18_Witness ==
    \E k \in 2..Len(allRounds) :
        LET byes == allRounds[k].byes
            prev == PreviousByes(allRounds, k)
        IN  \E p \in Range(byes) \cap prev :
                \E q \in Range(byes) \ prev :
                    /\ ByesBefore(allRounds, k, q) = ByesBefore(allRounds, k, p)
                    /\ IndexOf(byes, q) < IndexOf(byes, p)

\* The number of byes of every round with the couples and courts in use.
byesPerRound == byeSlotsOf(couples, courtNumbersInUse)

\* C19: with the couples and the courts fixed since the last reset, if twice
\* the number of byes per round is at most the number of couples, no couple is
\* on bye in two consecutive rounds of the session, whether one generate call
\* made both rounds or two calls did.
C19_NoBackToBack ==
    2 * byesPerRound <= Len(couples)
        => \A k \in 2..Len(allRounds) :
               Range(allRounds[k].byes) \cap Range(allRounds[k - 1].byes) = {}

\* C19 witness: the round a second generate call appends after a committed
\* round, both with byes, none of them shared.
C19_Witness ==
    /\ genPc = "loop"
    /\ Len(results) >= 1
    /\ Len(newResults) >= 1
    /\ 2 * byesPerRound <= Len(couples)
    /\ byesPerRound >= 1
    /\ Range(newResults[1].byes) \cap Range(results[Len(results)].byes) = {}

(***************************************************************************)
(* Partner order in round-robin groups of generateSchedule (SpecSchedule). *)
(***************************************************************************)
\* The partner pairs of a group of 4: positions {0,1} and {2,3}.
PartnerPairs(group) ==
    IF Len(group) = 4 THEN {{group[1], group[2]}, {group[3], group[4]}} ELSE {}

\* Number of groups of the first k-1 rounds of rs in which x and y were partners.
PartnerCount(rs, k, x, y) ==
    Cardinality({<<j, i>> \in (1..(k - 1)) \X (1..MaxCourts) :
                    /\ i <= Len(rs[j].courts)
                    /\ {x, y} \in PartnerPairs(rs[j].courts[i].group)})

\* The prior partner count of the split (a,b)+(c,d) at round k.
SplitScore(rs, k, a, b, c, d) == PartnerCount(rs, k, a, b) + PartnerCount(rs, k, c, d)

\* C15: in round-robin mode, the partner pairs of every group of 4 have the
\* lowest summed prior partner count of the three ways to split the group
\* into partners.
C15_BestSplit ==
    args.mode = "roundRobin"
        => \A k \in 1..Len(result.rounds) :
               \A i \in 1..Len(result.rounds[k].courts) :
                   LET p == result.rounds[k].courts[i].group
                       rs == result.rounds
                   IN  Len(p) = 4
                           => /\ SplitScore(rs, k, p[1], p[2], p[3], p[4])
                                     <= SplitScore(rs, k, p[1], p[3], p[2], p[4])
                              /\ SplitScore(rs, k, p[1], p[2], p[3], p[4])
                                     <= SplitScore(rs, k, p[1], p[4], p[2], p[3])

(***************************************************************************)
(* What a generate call takes from the calls before it (checked under      *)
(* Spec).                                                                  *)
(***************************************************************************)
\* The rounds the first pass of the loop of generate can build for the couples
\* cs on the courts `courts`, from the bye counts, the matchup history and the
\* last byes the call starts with.
firstRounds(cs, courts, counts, matchups, lastByes) ==
    UNION {{roundOf(cs, courts, byes, samples, matchups) :
               samples \in samplesOf(Filter(cs, Range(cs) \ Range(byes)),
                                     Slice(courts, 0, playableCourtsOf(cs, courts)))} :
           byes \in chooseByesFair(cs, counts, byeSlotsOf(cs, courts), lastByes)}

\* The last byes a call would start with.
lastByesOf(rs) == IF Len(rs) > 0 THEN Range(rs[Len(rs)].byes) ELSE {}

\* What a call can produce from the state it would start in.
callOutcomes ==
    firstRounds(couples, courtNumbersInUse, byeCounts, matchupSet, lastByesOf(results))

\* What a call with the same couples and courts can produce from an empty ledger.
freshOutcomes == firstRounds(couples, courtNumbersInUse, <<>>, {}, {})

needPairsOf(activeCouples, courtNumbers) ==
    Min(Len(courtNumbers), Len(activeCouples) \div 2)

\* The result of a returned search pairs needPairs times two different couples
\* of the pool, nobody twice.
SearchResultShape ==
    searchPc = "returned"
        => LET co == searchOut.courtsOut
               teams == PlayedTeams(co)
           IN  /\ Len(co) = needPairsOf(searchActive, searchCourts)
               /\ \A i \in 1..Len(co) :
                      /\ co[i].court = searchCourts[i]
                      /\ co[i].team1 # co[i].team2
                      /\ {co[i].team1, co[i].team2}
                             \subseteq Range(poolOf(searchActive, searchCourts))
               /\ Cardinality(Range(teams)) = Len(teams)

\* C17: for every active list, court list and matchup history, the search
\* makes at most maxRetries attempts, every pass of its loop either leaves the
\* loop or uses up one attempt of the budget, and the grouping it returns has
\* exactly two couples in every match.
C17_SearchTerminates ==
    /\ [](searchAttempt \in 0..maxRetries)
    /\ [][searchPc = "loop"
              => \/ searchPc' = "out"
                 \/ searchPc' = "loop" /\ searchAttempt' = searchAttempt + 1]_vars
    /\ [](searchPc = "loop" /\ searchAttempt = maxRetries => ENABLED SearchExhausted)
    /\ []SearchResultShape

\* C17 witness: a search over 4 couples on 2 courts that spent its whole
\* budget and returned two matches with a repeat.
C17_Witness ==
    /\ searchPc = "returned"
    /\ searchAttempt = maxRetries
    /\ Len(searchOut.courtsOut) = 2
    /\ searchOut.repeatsUsed >= 1

(***************************************************************************)
(* Rounds without byes (checked under Spec).                               *)
(***************************************************************************)
\* C20: when the round needs 0 byes, chooseByesFair returns the empty list
\* only, and the pass of the loop that builds the round puts every couple in
\* a match and leaves every bye count of the ledger as it was.
C20_NoByesNeeded ==
    [][(genPc = "loop" /\ r' = r + 1 /\ byesPerRound = 0)
          => LET rd == newResults'[Len(newResults')]
             IN  /\ chooseByesFair(couples, nextByeCounts, byesPerRound, lastByesSet)
                        = {<<>>}
                 /\ rd.byes = <<>>
                 /\ Range(PlayedTeams(rd.courtsOut)) = Range(couples)
                 /\ \A c \in Range(couples) :
                        CountOf(nextByeCounts', c) = CountOf(nextByeCounts, c)
                 /\ DOMAIN nextByeCounts' = DOMAIN nextByeCounts]_vars

\* C20 witness: two committed rounds of 4 couples on 2 courts, nobody on bye
\* and every bye count still 0.
C20_Witness ==
    /\ genPc = "idle"
    /\ Len(couples) = 4
    /\ Len(results) = 2
    /\ byesPerRound = 0
    /\ results[1].byes = <<>>
    /\ results[2].byes = <<>>
    /\ \A c \in Range(couples) : c \in DOMAIN byeCounts /\ byeCounts[c] = 0

(***************************************************************************)
(* The attempt the search keeps (checked under SpecDraws).                 *)
(***************************************************************************)
\* The couples of a list of matches, in order.
RECURSIVE FlattenMatches(_)
FlattenMatches(ms) ==
    IF Len(ms) = 0 THEN <<>> ELSE <<ms[1][1], ms[1][2]>> \o FlattenMatches(Tail(ms))

\* The repeat score of the attempt made on the i-th shuffle drawn.
scoreOf(i) == attempt(searchSamples[i], searchMatchups).repeats

\* The number of attempts sampled when the loop was left: the counter is not
\* incremented by the pass that breaks.
sampledAttempts ==
    IF searchBest.found /\ searchBest.repeats = 0 THEN searchAttempt + 1
    ELSE searchAttempt

\* C21: the grouping the search keeps has the lowest repeat score of the
\* attempts sampled, it is the first sampled attempt with that score, no
\* attempt is sampled after one with score 0, and the value returned is made
\* of it.
C21_KeepsBest ==
    searchPc \in {"out", "returned"}
        => /\ sampledAttempts \in 1..Len(searchSamples)
           /\ \A i \in 1..sampledAttempts : searchBest.repeats <= scoreOf(i)
           /\ \E i \in 1..sampledAttempts :
                  /\ scoreOf(i) = searchBest.repeats
                  /\ searchBest.matches = attempt(searchSamples[i], searchMatchups).matches
                  /\ \A j \in 1..(i - 1) : scoreOf(j) > searchBest.repeats
           /\ \A i \in 1..(sampledAttempts - 1) : scoreOf(i) # 0
           /\ sampledAttempts < Len(searchSamples) => scoreOf(sampledAttempts) = 0
           /\ searchPc = "returned"
                  => /\ searchOut.repeatsUsed = searchBest.repeats
                     /\ PlayedTeams(searchOut.courtsOut) = FlattenMatches(searchBest.matches)

\* C21 witness: three attempts sampled, the first with more repeats than the
\* second, the third tying with the second on another grouping; the second
\* is kept.
C21_Witness ==
    /\ searchPc = "returned"
    /\ Len(searchSamples) = 3
    /\ sampledAttempts = 3
    /\ scoreOf(1) > scoreOf(2)
    /\ scoreOf(2) = scoreOf(3)
    /\ attempt(searchSamples[3], searchMatchups).matches
           # attempt(searchSamples[2], searchMatchups).matches
    /\ searchBest.matches = attempt(searchSamples[2], searchMatchups).matches

\* The early stop happens: a search that found score 0 on its second
\* attempt and sampled no third one.
EarlyStopReached ==
    /\ searchPc = "returned"
    /\ Len(searchSamples) = 3
    /\ sampledAttempts = 2
    /\ searchBest.repeats = 0

(***************************************************************************)
(* What a reported repeat means (checked under SpecSearch).                *)
(***************************************************************************)
\* The ways of pairing all couples of S into matches: sets of disjoint pairs.
RECURSIVE Pairings(_)
Pairings(S) ==
    IF S = {} THEN {{}}
    ELSE LET a == CHOOSE x \in S : \A y \in S : x <= y
         IN  UNION {{{pairKey(a, b)} \cup rest : rest \in Pairings(S \ {a, b})} :
                       b \in S \ {a}}

\* Some pairing of the couples of S uses no key of matchups.
avoidable(S, matchups) == \E P \in Pairings(S) : P \cap matchups = {}

\* C22: a search that reports repeatsUsed > 0 had no way to pair its pool
\* without a pair already played.
C22_Unavoidable ==
    (searchPc = "returned" /\ searchOut.repeatsUsed > 0)
        => ~avoidable(Range(poolOf(searchActive, searchCourts)), searchMatchups)

(***************************************************************************)
(* Repeat scores against the rounds played (checked under SpecSession).    *)
(***************************************************************************)
\* The sum, over the real matches i..Len of round k of rs, of the number of
\* earlier rounds of rs in which the pair of the match had been matched.
RECURSIVE PriorMatchSum(_, _, _)
PriorMatchSum(rs, k, i) ==
    IF i > Len(rs[k].courtsOut) THEN 0
    ELSE (IF rs[k].courtsOut[i].isOpen THEN 0
          ELSE TimesMatched(SubSeq(rs, 1, k - 1), rs[k].courtsOut[i].team1,
                            rs[k].courtsOut[i].team2))
         + PriorMatchSum(rs, k, i + 1)

\* C23: the score of the attempt kept for a round is the sum over its matches
\* of 10 times the number of earlier rounds in which the pair of the match was
\* matched (one repeat counted by the code is taken as a score of 10).
C23_CumulativeScore ==
    \A k \in 1..Len(allRounds) :
        10 * allRounds[k].repeatsUsed = 10 * PriorMatchSum(allRounds, k, 1)

PairsOf(S) == {pairKey(a, b) : a \in S, b \in S} \ {pairKey(a, a) : a \in S}

\* The sum over the keys of K of (times matched in rs - 1) for the pairs
\* matched more than once.
RECURSIVE ExtraMatches(_, _)
ExtraMatches(rs, K) ==
    IF K = {} THEN 0
    ELSE LET key == CHOOSE x \in K : TRUE
             times == TimesMatched(rs, key[1], key[2])
         IN  (IF times > 1 THEN times - 1 ELSE 0) + ExtraMatches(rs, K \ {key})

\* C25: the repeatsUsed values of the rounds since the last reset add up to
\* the sum, over the pairs of couples matched more than once, of the times
\* matched less one.
C25_SessionRepeats ==
    TotalRepeats(allRounds) = ExtraMatches(allRounds, PairsOf(Range(couples)))

\* C25 witness: three rounds in which the same two couples met each time, the
\* repeat counts adding up to 2.
C25_Witness ==
    /\ Len(allRounds) = 3
    /\ TotalRepeats(allRounds) = 2
    /\ \E key \in PairsOf(Range(couples)) : TimesMatched(allRounds, key[1], key[2]) = 3

\* The number of real matches of round k of rs whose pair had been matched in
\* an earlier round of rs.
RepeatsIn(rs, k) ==
    Cardinality({i \in 1..Len(rs[k].courtsOut) :
                    /\ ~rs[k].courtsOut[i].isOpen
                    /\ pairKey(rs[k].courtsOut[i].team1, rs[k].courtsOut[i].team2)
                           \in playedKeys(SubSeq(rs, 1, k - 1))})

\* C26: the repeatsUsed stored with a round is the number of its real matches
\* whose pair had already been matched in an earlier round since the last
\* reset.
C26_RepeatsUsed ==
    \A k \in 1..Len(allRounds) : allRounds[k].repeatsUsed = RepeatsIn(allRounds, k)

\* C26 witness: a second round on two courts with one match repeated from the
\* first round and one new match, stored with repeatsUsed 1.
C26_Witness ==
    /\ Len(allRounds) = 2
    /\ Len(allRounds[2].courtsOut) = 2
    /\ ~allRounds[2].courtsOut[2].isOpen
    /\ allRounds[2].repeatsUsed = 1
    /\ RepeatsIn(allRounds, 2) = 1

(***************************************************************************)
(* The matchup history round by round (checked under Spec).                *)
(***************************************************************************)
\* The history holds exactly the keys of the pairs that met on a real court
\* in a round since the last reset, each the key of two different couples.
HistoryIsPlayed ==
    /\ ledgerMatchups = playedKeys(allRounds)
    /\ ledgerMatchups \subseteq PairsOf(Range(couples))
    /\ \A k \in 1..Len(allRounds) :
           \A i \in 1..Len(allRounds[k].courtsOut) :
               ~allRounds[k].courtsOut[i].isOpen
                   => /\ pairKey(allRounds[k].courtsOut[i].team1,
                                 allRounds[k].courtsOut[i].team2) \in ledgerMatchups
                      /\ pairKey(allRounds[k].courtsOut[i].team2,
                                 allRounds[k].courtsOut[i].team1) \in ledgerMatchups

\* The pass of the loop that builds a round adds the keys of that round's
\* real matches to the history before the next pass, and nothing else: no key
\* with a couple on bye in that round, no key for an OPEN court.
HistoryStep ==
    [][(genPc = "loop" /\ r' = r + 1)
          => LET rd == newResults'[Len(newResults')]
             IN  /\ nextMatchupSet' = nextMatchupSet \cup playedKeys(<<rd>>)
                 /\ \A key \in nextMatchupSet' \ nextMatchupSet :
                        /\ {key[1], key[2]} \cap Range(rd.byes) = {}
                        /\ EmptyName \notin {key[1], key[2]}
                 /\ Cardinality(playedKeys(<<rd>>))
                        = playableCourtsOf(couples, courtNumbersInUse)]_vars

\* C27: after every generated round the matchup history holds exactly the
\* unordered pairs that met on a real court in a round since the last reset;
\* each round's pairs are recorded before the next round is built, and byes
\* and OPEN courts add nothing.
C27_History == []HistoryIsPlayed /\ HistoryStep

\* C27 witness: two rounds of 3 couples on two courts, each with a bye and an
\* OPEN court, and a history of the two pairs that played.
C27_Witness ==
    /\ Len(allRounds) = 2
    /\ Len(couples) = 3
    /\ Len(courtNumbersInUse) = 2
    /\ allRounds[2].courtsOut[2].isOpen
    /\ Len(allRounds[2].byes) = 1
    /\ Cardinality(ledgerMatchups) = 2

(***************************************************************************)
(* What Generate and Reset do to the rounds (checked under Spec).          *)
(***************************************************************************)
\* s is the start of t.
IsPrefix(s, t) == Len(s) <= Len(t) /\ SubSeq(t, 1, Len(s)) = s

\* C28: a Generate appends exactly clamp(roundCount, 1, 10) rounds after the
\* rounds there were and leaves those unchanged; no other step changes the
\* rounds, except a Reset, which empties them with the ledger.
C28_Appends ==
    [][/\ (genPc = "loop" /\ genPc' = "idle")
           => /\ IsPrefix(results, results')
              /\ Len(results') = Len(results) + clampInt(roundCount, 1, 10)
              /\ SubSeq(results', Len(results) + 1, Len(results')) = newResults
       /\ ~(genPc = "loop" /\ genPc' = "idle")
           => \/ results' = results
              \/ /\ results' = <<>>
                 /\ byeCounts' = <<>>
                 /\ matchupSet' = {}
                 /\ showRoundIndex' = 0
                 /\ genPc = "idle"
                 /\ genPc' = "idle"]_vars

\* C28 witness: two rounds stand, appended one at a time or together, with 0
\* typed as the number of rounds to add (a Generate would append 1).
C28_Witness ==
    /\ genPc = "idle"
    /\ Len(results) = 2
    /\ roundCount = 0
    /\ results[1] # results[2]

\* What a call can produce in the state the component mounts in, for the
\* couples and courts in use.
mountOutcomes ==
    firstRounds(couples, courtNumbersInUse, alignByeCounts(<<>>, couples), {}, {})

\* The step a Reset takes: results, bye counts and matchup history emptied,
\* round 0 shown, the couples, the courts and the rounds-to-add input kept.
ResetStep ==
    [][resetHistory
          => /\ results' = <<>>
             /\ \A c \in Range(couples) : CountOf(byeCounts', c) = 0
             /\ DOMAIN byeCounts' = {}
             /\ matchupSet' = {}
             /\ showRoundIndex' = 0
             /\ numCouples' = numCouples
             /\ courtNumbersInUse' = courtNumbersInUse
             /\ roundCount' = roundCount
             /\ genPc' = "idle"]_vars

\* In a state as a Reset leaves it, a Generate can produce exactly what it can
\* produce in the state the component mounts in.
AfterResetAsMounted ==
    (genPc = "idle" /\ results = <<>> /\ DOMAIN byeCounts = {} /\ matchupSet = {})
        => callOutcomes = mountOutcomes

\* C29: a Reset, whatever the state it is pressed in, empties the results, the
\* bye counts and the matchup history, shows round 0 and leaves the couples,
\* the courts and the rounds-to-add input as they were; rounds generated
\* afterwards have the possible outcomes of rounds generated from the initial
\* state.
C29_Reset == ResetStep /\ []AfterResetAsMounted

\* C29 witness: the state a Reset leaves with 3 couples: no round, no count,
\* no history.
C29_Witness ==
    /\ genPc = "idle"
    /\ Len(couples) = 3
    /\ results = <<>>
    /\ DOMAIN byeCounts = {}
    /\ matchupSet = {}
    /\ showRoundIndex = 0
    /\ callOutcomes = mountOutcomes

(***************************************************************************)
(* C30.  As stated: only generation and Reset change the ledger (results,  *)
(* bye counts, matchup history).  The couples input changes it too: the    *)
(* couples.length effect rebuilds byeCounts over the new couple list.      *)
(***************************************************************************)
ledger == <<results, byeCounts, matchupSet>>

\* The step is the commit of generate().
CommitStep == genPc = "loop" /\ genPc' = "idle"

\* The step empties the whole ledger, as resetHistory does.
ResetLedgerStep == results' = <<>> /\ byeCounts' = <<>> /\ matchupSet' = {}

\* The step changes the number of couples and leaves rounds and history alone.
CouplesStep == numCouples' # numCouples /\ UNCHANGED <<results, matchupSet>>

\* The step is one of copy, export, round navigation, TV mode, fullscreen or
\* auto-advance: the view changes, or only the round shown does.
ViewStep ==
    \/ viewVars' # viewVars
    \/ /\ showRoundIndex' # showRoundIndex
       /\ genPc = "idle"
       /\ Len(results) > 0
       /\ Len(results') > 0

\* The ledger by what it records: a couple without an entry has count 0, as
\* chooseByesFair and the couples.length effect read it.
recorded ==
    <<results, [c \in Range(couplesOf(MaxViewCouples)) |-> CountOf(byeCounts, c)],
      matchupSet>>

C30_AsStated == [][recorded' # recorded => CommitStep \/ ResetLedgerStep]_vars

\* C30, amended: the ledger changes only when generate() commits, on Reset,
\* or (the bye counts alone) when the number of couples changes; copy, export,
\* round navigation, TV mode, fullscreen and auto-advance leave results, bye
\* counts and matchup history unchanged.
C30_Amended ==
    [][ /\ ledger' # ledger => CommitStep \/ ResetLedgerStep \/ CouplesStep
        /\ ViewStep => ledger' = ledger ]_vars

\* Two rounds are in the ledger with bye counts, the second round is shown
\* on the Court Board in fullscreen with auto-advance on, and the copy modal
\* holds the exported text.
C30_Witness ==
    /\ Len(results) = 2
    /\ \E c \in DOMAIN byeCounts : byeCounts[c] > 0
    /\ matchupSet # {}
    /\ tvMode /\ isFullscreen /\ autoAdvance
    /\ showRoundIndex = 1
    /\ copyModalText = exportText
    /\ copyModalText # <<>>

(***************************************************************************)
(* C31.  Every court list handleGenerate passes to generateSchedule is     *)
(* non-empty, strictly ascending and made of positive integers;            *)
(* parseCourtsInput returns a non-empty error exactly when it returns an   *)
(* empty court list; on a parse error handleGenerate clears the rounds,    *)
(* shows that error and does not call generateSchedule.                    *)
(***************************************************************************)
CourtListOk(courts) ==
    /\ Len(courts) > 0
    /\ \A i \in 1..Len(courts) : courts[i] \in Nat /\ courts[i] > 0
    /\ \A i \in 1..(Len(courts) - 1) : courts[i] < courts[i + 1]

\* No call of generateSchedule so far, or the list of the last one is in order.
PassedCourtsOk == args = NoArgs \/ CourtListOk(args.courtNumbers)

ParseErrorIffNoCourts ==
    LET parsed == parseCourtsInput(courtsText)
    IN  /\ (parsed.error.msg # "") <=> (Len(parsed.courts) = 0)
        /\ parsed.error.msg = "" => CourtListOk(parsed.courts)

\* The form as first filled (no Reset yet) has a courts text that does not
\* parse: whatever was clicked, no call was made, no rounds are shown, the
\* board was not entered and the error shown, if any, is the parser's.
ParseErrorNoCall ==
    LET parsed == parseCourtsInput(courtsText)
    IN  (gamesText # <<>> /\ parsed.error.msg # "") =>
            /\ args = NoArgs /\ result = NoResult
            /\ uiRounds = <<>>
            /\ ~uiTvMode
            /\ uiError \in {NoErr, parsed.error}

\* A handleGenerate step on a courts text that does not parse.
ParseErrorStep ==
    (parseCourtsInput(courtsText).error.msg # "" /\ handleGenerate) =>
        /\ uiRounds' = <<>>
        /\ uiError' = parseCourtsInput(courtsText).error
        /\ UNCHANGED <<args, result, uiTvMode, tvGameIndex>>

C31_CourtLists ==
    /\ []PassedCourtsOk
    /\ []ParseErrorIffNoCourts
    /\ []ParseErrorNoCall
    /\ [][ParseErrorStep]_vars

\* Courts 1, 2, 3 were passed for the text "3-1"; after Reset, Generate on the
\* empty courts text shows the parser's error over no rounds.
C31_Witness ==
    /\ args.courtNumbers = <<1, 2, 3>>
    /\ result.error = ""
    /\ courtsText = <<>>
    /\ uiError = Err(ErrCourts, <<>>)
    /\ uiRounds = <<>>
    /\ ~uiTvMode

(***************************************************************************)
(* C32.  In the part_000 app, after any sequence of input edits (outside   *)
(* TV mode), Generate, Re-Generate, Exit TV Mode and Reset: an error shown *)
(* implies no rounds; TV mode implies no error and some rounds; a          *)
(* successful generate enters TV mode at game index 0 and a failed one     *)
(* leaves tvMode unchanged.                                                *)
(***************************************************************************)
ErrorMeansNoRounds == uiError.msg # "" => uiRounds = <<>>

TvMeansRounds == uiTvMode => (uiError.msg = "" /\ Len(uiRounds) > 0)

\* A handleGenerate step: it succeeded when it leaves no error.
GenerateStep ==
    handleGenerate =>
        IF uiError'.msg = ""
        THEN uiTvMode' /\ tvGameIndex' = 0 /\ Len(uiRounds') > 0
        ELSE uiTvMode' = uiTvMode

C32_TvMode ==
    /\ []ErrorMeansNoRounds
    /\ []TvMeansRounds
    /\ [][GenerateStep]_vars

\* Two games were generated and shown, the TV view was left, the courts text
\* was edited into one that does not parse and Generate failed on it.
C32_Witness ==
    /\ result.error = ""
    /\ Len(result.rounds) = 2
    /\ parseCourtsInput(courtsText).error.msg # ""
    /\ uiError = parseCourtsInput(courtsText).error
    /\ uiRounds = <<>>
    /\ ~uiTvMode

(***************************************************************************)
(* C33.  After any sequence of Generate, Reset, Prev, Next, Latest, the    *)
(* Court Board's wrapping Prev and Next and auto-advance ticks, the shown  *)
(* round index satisfies 0 <= showRoundIndex <= max(0, results.length - 1) *)
(* once effects have run, and every Generate sets it to 0, the first round *)
(* of the whole history.                                                   *)
(***************************************************************************)
ShownInRange ==
    /\ showRoundIndex \in Nat
    /\ showRoundIndex <= Max(0, Len(results) - 1)

\* The step on which generate() hands its rounds over.
GenerateShowsFirst ==
    (genPc = "loop" /\ genPc' = "idle") =>
        /\ showRoundIndex' = 0
        /\ Len(results') > Len(results)

C33_ShownRound == []ShownInRange /\ [][GenerateShowsFirst]_vars

\* Generate is about to add a third round while the second one is shown.
C33_Witness ==
    /\ genPc = "loop"
    /\ r = roundsN
    /\ Len(results) = 2
    /\ showRoundIndex = 1

(***************************************************************************)
(* C34.  Within one search attempt, a match between a and b that repeats   *)
(* an earlier matchup is formed only when a has already played every       *)
(* participant still unpaired in that attempt; otherwise a is paired with  *)
(* the first remaining participant, in shuffle order, it has not played.   *)
(***************************************************************************)
\* The matches, read one after the other against the participants still
\* unpaired: a is the first of them, b one of the others.
RECURSIVE MatchesAvoidRepeats(_, _, _)
MatchesAvoidRepeats(unpaired, matches, matchups) ==
    IF Len(matches) = 0 THEN Len(unpaired) < 2
    ELSE LET a == matches[1][1]
             b == matches[1][2]
             others == Tail(unpaired)
             at == {j \in 1..Len(others) : others[j] = b}
         IN  /\ Len(unpaired) >= 2
             /\ a = Head(unpaired)
             /\ at # {}
             /\ IF pairKey(a, b) \in matchups
                THEN \A j \in 1..Len(others) : pairKey(a, others[j]) \in matchups
                ELSE \A j \in 1..Len(others) :
                        (\A k \in at : j < k) => pairKey(a, others[j]) \in matchups
             /\ MatchesAvoidRepeats(SelectSeq(others, LAMBDA c : c # b),
                                    Tail(matches), matchups)

\* The call has run: every shuffle drawn for it, as one attempt pairs it.
C34_AvoidsRepeats ==
    searchPc = "out" =>
        \A i \in DOMAIN searchSamples :
            MatchesAvoidRepeats(searchSamples[i],
                                attempt(searchSamples[i], searchMatchups).matches,
                                searchMatchups)

\* The call has run, and in one of its attempts a participant skipped one it
\* had played for a later one, and another had no one left but one it had played.
C34_Witness ==
    /\ searchPc = "out"
    /\ \E i \in DOMAIN searchSamples :
          LET ms == attempt(searchSamples[i], searchMatchups).matches
          IN  /\ Len(ms) = 2
              /\ pairKey(ms[1][1], searchSamples[i][2]) \in searchMatchups
              /\ ms[1][2] # searchSamples[i][2]
              /\ pairKey(ms[1][1], ms[1][2]) \notin searchMatchups
              /\ pairKey(ms[2][1], ms[2][2]) \in searchMatchups

(***************************************************************************)
(* C35.  pairKey is symmetric and identifies unordered pairs:              *)
(* pairKey(a, b) = pairKey(b, a) for all names, and for the default names  *)
(* two different unordered pairs never get the same key.                   *)
(***************************************************************************)
\* The key returned is the key of the two names either way round.
KeySymmetric ==
    fnPc \in {"returned", "swapped"} =>
        /\ keyOut = pairKeyText(keyA, keyB)
        /\ keyOut = pairKeyText(keyB, keyA)

\* Calling again with the names swapped returns the same key.
KeySwapStep == (fnPc = "returned" /\ fnPc' = "swapped") => keyOut' = keyOut

\* No other unordered pair of default names has the key returned.
KeyIdentifiesPair ==
    (fnPc = "returned" /\ keyA \in DefaultNames /\ keyB \in DefaultNames) =>
        \A c \in DefaultNames, d \in DefaultNames :
            pairKeyText(c, d) = keyOut => {c, d} = {keyA, keyB}

C35_PairKey == []KeySymmetric /\ []KeyIdentifiesPair /\ [][KeySwapStep]_vars

\* Couple 10 and Couple 2, given in that order and in the other: sort puts
\* "Couple 10" first both times.
C35_Witness ==
    /\ fnPc = "swapped"
    /\ keyA = defaultCoupleNameText(10)
    /\ keyB = defaultCoupleNameText(2)
    /\ keyOut = defaultCoupleNameText(10) \o <<" ", Arrow, " ">> \o defaultCoupleNameText(2)

(***************************************************************************)
(* C36.  clampInt(n, min, max) with integers min <= max always returns an  *)
(* integer in [min, max]: the floor of n clamped into the range for finite *)
(* n, and min for NaN or any non-finite n; hence the couple count is in    *)
(* [2, 40], the court count in [1, 40], the rounds per generate in         *)
(* [1, 10].                                                                *)
(***************************************************************************)
\* The greatest integer not above q / Denominator, found by search.
floorOf(q) ==
    CHOOSE k \in (-(MaxClamp + 2))..(MaxClamp + 2) :
        k * Denominator <= q /\ q < (k + 1) * Denominator

C36_ClampInt ==
    fnPc = "returned" =>
        /\ clampOut \in clampMin..clampMax
        /\ IF clampN.kind = "finite"
           THEN LET f == floorOf(clampN.q)
                IN  clampOut = IF f < clampMin THEN clampMin
                               ELSE IF f > clampMax THEN clampMax ELSE f
           ELSE clampOut = clampMin

\* clampInt(-0.5, -2, 2) returned -1, the floor and not the truncation.
C36_Witness ==
    /\ fnPc = "returned"
    /\ clampN = Num("finite", -1)
    /\ Denominator > 1
    /\ clampMin = -2
    /\ clampMax = 2
    /\ clampOut = -1

====
